---- MODULE Spec2Model ----
(***************************************************************************)
(* Resilient memory gateway of OpenMemory (mem0 fork).                     *)
(*                                                                         *)
(*   SpecClient : ResilientMemoryClient (app/utils/memory.py), one backend *)
(*                call per step.                                           *)
(*   Spec       : the MCP tools (app/mcp_server_optimized.py) over the     *)
(*                relational store, one tool call per step.                *)
(*                                                                         *)
(* Python values are records tagged by t: None, dict, list, str.  Python   *)
(* strings are TLA+ strings; slicing, strip and the `in` substring test    *)
(* are computed on their characters.                                       *)
(***************************************************************************)
EXTENDS Integers, Sequences, FiniteSets, TLC

VARIABLES
    pc,          \* position of the ResilientMemoryClient call in progress
    op,          \* the method invoked: add, search, get_all, delete_all
    text,        \* add: the text argument (search: the query)
    kwargs,      \* the keyword arguments of the invocation
    error_msg,   \* add: str(e) of the failed direct call (memory.py:182)
    idx,         \* add: index of the next fallback strategy, 1..4
    calls,       \* the backend calls issued by this invocation, in order
    lastOutcome, \* what the most recent backend call did
    ret,         \* what the invocation handed to its caller
    users,       \* User table: the user ids that have a row
    apps,        \* App table: <<owner, name>> -> [is_active]
    memories,    \* Memory table (the shadow records): uuid -> [user_id, app_id, state]
    last,        \* the tool call just served: arguments, faults, result, rows written
    active_connections, \* the registry of connection ids (mcp_server_optimized.py:62)
    connection_counter, \* the number of handle_sse invocations so far (line 63)
    sessions,    \* the handle_sse invocations in order of arrival: position, locals
    stored_config,  \* the configuration row "main" of the database
    _config_cache,  \* ConfigManager._config_cache (config_manager.py:26)
    _memory_client, \* the shared backend client (memory.py:44)
    _config_hash,   \* the hash of the configuration it was built from (memory.py:45)
    built,       \* the number of clients constructed so far
    retired,     \* the clients that were current when a reset happened
    environ,     \* os.environ: the variables that are set, among those the code reads
    user_rows,   \* User table row by row, in order of insertion
    app_rows,    \* App table row by row, in order of insertion
    resolvers,   \* the get_user_and_app calls in progress: position, locals
    tool_run,    \* a tool call statement by statement: position, its db session
    main_py,     \* main.py in the directory the deploy script runs in
    main_py_backup, \* main.py.backup
    mcp_mode,    \* the .mcp_mode status file
    app_files,   \* which of app/mcp_server.py, app/mcp_server_optimized.py exist
    runs,        \* the runs of the deploy script so far, in order
    main_py_before \* main.py as it was before the first run

clientVars == <<pc, op, text, kwargs, error_msg, idx, calls, lastOutcome, ret>>

gatewayVars == <<users, apps, memories, last>>

sessionVars == <<active_connections, connection_counter, sessions>>

configVars == <<stored_config, _config_cache, _memory_client, _config_hash, built, retired,
                environ>>

dbVars == <<user_rows, app_rows, resolvers, tool_run>>
deployVars == <<main_py, main_py_backup, mcp_mode, app_files, runs, main_py_before>>

vars == <<pc, op, text, kwargs, error_msg, idx, calls, lastOutcome, ret,
          users, apps, memories, last,
          active_connections, connection_counter, sessions,
          stored_config, _config_cache, _memory_client, _config_hash, built, retired, environ,
          user_rows, app_rows, resolvers, tool_run,
          main_py, main_py_backup, mcp_mode, app_files, runs, main_py_before>>

-----------------------------------------------------------------------------
(* Python values *)

PyNone == [t |-> "none"]
PyDict(d) == [t |-> "dict", d |-> d]
PyList(items) == [t |-> "list", items |-> items]
PyStr(s) == [t |-> "str", s |-> s]
PyBool(b) == [t |-> "bool", b |-> b]
PyInt(n) == [t |-> "int", n |-> n]

EmptyMap == [k \in {} |-> PyNone]

IsDict(v) == v.t = "dict"

\* bool(v)
Truthy(v) ==
    CASE v.t = "none" -> FALSE
      [] v.t = "dict" -> DOMAIN v.d # {}
      [] v.t = "list" -> Len(v.items) > 0
      [] v.t = "str" -> v.s # ""
      [] v.t = "bool" -> v.b

\* {**a, **b}: b's entries override a's
Merge(a, b) == b @@ a

\* d.get(key, default)
DictGet(d, key, default) == IF key \in DOMAIN d THEN d[key] ELSE default

Raised(type, msg) == [k |-> "raise", type |-> type, msg |-> msg]
Returned(v) == [k |-> "return", v |-> v]
NoOutcome == [k |-> "none"]

-----------------------------------------------------------------------------
(* Python strings *)

Min(a, b) == IF a < b THEN a ELSE b

\* s[:n]
Prefix(s, n) == SubSeq(s, 1, Min(n, Len(s)))

\* k in s
Contains(s, k) ==
    \E i \in 1..(Len(s) - Len(k) + 1) : SubSeq(s, i, i + Len(k) - 1) = k

IsSpace(c) == c \in {" ", "\t", "\n", "\r"}

\* s.lstrip(), s.rstrip(), s.strip()
RECURSIVE LStrip(_)
LStrip(s) ==
    IF Len(s) = 0 \/ ~IsSpace(SubSeq(s, 1, 1)) THEN s
    ELSE LStrip(SubSeq(s, 2, Len(s)))

RECURSIVE RStrip(_)
RStrip(s) ==
    IF Len(s) = 0 \/ ~IsSpace(SubSeq(s, Len(s), Len(s))) THEN s
    ELSE RStrip(SubSeq(s, 1, Len(s) - 1))

Strip(s) == RStrip(LStrip(s))

RECURSIVE Rep(_, _)
Rep(s, n) == IF n = 0 THEN "" ELSE s \o Rep(s, n - 1)

-----------------------------------------------------------------------------
(* ResilientMemoryClient: app/utils/memory.py *)

TruncLen == 200
EmergencyLen == 100

DefaultRelations == [added_entities |-> <<>>, deleted_entities |-> <<>>]

EmptyShaped == PyDict(("results" :> <<>>) @@ ("relations" :> DefaultRelations))

\* memory.py:186-189
JsonKeywords ==
    {"Expecting value", "JSON", "line 1 column 1", "Unterminated string",
     "Invalid control character", "json"}

\* any(keyword for keyword in [...]): the membership test dropped
is_json_error_any(msg) == \E keyword \in JsonKeywords : Len(keyword) > 0

is_json_error(msg) == \E keyword \in JsonKeywords : Contains(msg, keyword)

\* memory.py:166-169 and 243-246
EnsureStructure(v) ==
    LET d1 == IF "results" \in DOMAIN v.d THEN v.d
              ELSE v.d @@ ("results" :> <<>>)
        d2 == IF "relations" \in DOMAIN d1 THEN d1
              ELSE d1 @@ ("relations" :> DefaultRelations)
    IN  PyDict(d2)

\* memory.py:219
text_modifier(t) ==
    IF Len(t) > TruncLen THEN Prefix(Strip(t), TruncLen) ELSE Strip(t)

\* memory.py:213: {**kwargs.get("metadata", {}), "retry_attempt": True}
\* unpacking anything but a mapping raises TypeError
RetryMetadataFails(kw) ==
    ~IsDict(DictGet(kw, "metadata", PyDict(EmptyMap)))

RetryMetadata(kw) ==
    PyDict(Merge(DictGet(kw, "metadata", PyDict(EmptyMap)).d,
                 "retry_attempt" :> PyBool(TRUE)))

\* the list with its first two strategies in the other order
StrategyParamsSwapped(i, kw) ==
    CASE i = 2 -> ("infer" :> PyBool(FALSE))
      [] i = 1 -> ("metadata" :> PyDict("source" :> PyStr("resilient_fallback")))
      [] i = 3 -> ("infer" :> PyBool(TRUE)) @@ ("metadata" :> RetryMetadata(kw))
      [] i = 4 -> ("infer" :> PyBool(TRUE))

\* memory.py:200-222: strategy["params"] of strategy i
StrategyParams(i, kw) ==
    CASE i = 1 -> ("infer" :> PyBool(FALSE))
      [] i = 2 -> ("metadata" :> PyDict("source" :> PyStr("resilient_fallback")))
      [] i = 3 -> ("infer" :> PyBool(TRUE)) @@ ("metadata" :> RetryMetadata(kw))
      [] i = 4 -> ("infer" :> PyBool(TRUE))

NumStrategies == 4

\* memory.py:229-235
FallbackKwargs(i, kw) == Merge(kw, StrategyParams(i, kw))

FallbackText(i, t) == IF i = 4 THEN text_modifier(t) ELSE t

\* the emergency call with the whole text kept in its metadata
EmergencyKwargsWhole(t, kw) ==
    ("user_id" :> DictGet(kw, "user_id", PyNone))
    @@ ("infer" :> PyBool(FALSE))
    @@ ("metadata" :> PyDict(("emergency_storage" :> PyBool(TRUE))
                             @@ ("original_text" :> PyStr(t))))

\* memory.py:262-267
EmergencyKwargs(t, kw) ==
    ("user_id" :> DictGet(kw, "user_id", PyNone))
    @@ ("infer" :> PyBool(FALSE))
    @@ ("metadata" :> PyDict(("emergency_storage" :> PyBool(TRUE))
                             @@ ("original_text" :> PyStr(Prefix(t, EmergencyLen)))))

\* memory.py:284-292
Diagnostic(t, kw) ==
    PyDict(("results" :> <<>>)
           @@ ("relations" :> DefaultRelations)
           @@ ("diagnostic" :> [all_strategies_failed |-> TRUE,
                                original_text_length |-> Len(t),
                                kwargs_keys |-> DOMAIN kw]))

-----------------------------------------------------------------------------
(* The backend (mem0 Memory) seen from ResilientMemoryClient: every call   *)
(* raises or returns, and what it returns may be malformed.                *)

MaxResults == 1

Msgs ==
    {"Expecting value: line 1 column 1 (char 0)",
     "Unterminated string starting at: line 1 column 12 (char 11)",
     "Failed to parse json response",
     "Connection refused",
     "Rate limit exceeded"}

ResultRec == [id |-> "m1", memory |-> "Name is Ana", event |-> "ADD"]

ResultLists == {[i \in 1..n |-> ResultRec] : n \in 0..MaxResults}

BackendRelations == [added_entities |-> <<"ana">>, deleted_entities |-> <<>>]

BackendDicts ==
    {PyDict(EmptyMap), PyDict("message" :> PyStr("ok"))}
    \cup {PyDict("results" :> r) : r \in ResultLists}
    \cup {PyDict(("results" :> r) @@ ("relations" :> BackendRelations)) :
              r \in ResultLists}

BackendValues == {PyNone} \cup BackendDicts \cup {PyList(r) : r \in ResultLists}

Outcomes ==
    {Raised("Exception", m) : m \in Msgs} \cup {Returned(v) : v \in BackendValues}

Texts ==
    {"My name is Ana",
     "  likes coffee \n",
     Rep("0123456789", 25),
     " " \o Rep("0123456789", 20)}

UserIdOpts == {EmptyMap, "user_id" :> PyStr("u1")}

MetadataOpts ==
    {EmptyMap,
     "metadata" :> PyNone,
     "metadata" :> PyDict(EmptyMap),
     "metadata" :> PyDict("source_app" :> PyStr("openmemory"))}

InferOpts == {EmptyMap, "infer" :> PyBool(TRUE), "infer" :> PyBool(FALSE)}

AddKwargs == {u @@ m @@ i : u \in UserIdOpts, m \in MetadataOpts, i \in InferOpts}

ReadKwargs == UserIdOpts

\* how a backend call ended, as the wrapper tells the cases apart
OutcomeClass(out) ==
    IF out.k = "raise" THEN "raised"
    ELSE IF IsDict(out.v) /\ Truthy(out.v) THEN "dict"
    ELSE "other"

Call(t, kw, out) == [text |-> t, kwargs |-> kw, res |-> OutcomeClass(out)]

ClientInit ==
    /\ pc = "idle"
    /\ op = "none"
    /\ text = ""
    /\ kwargs = EmptyMap
    /\ error_msg = PyNone
    /\ idx = 0
    /\ calls = <<>>
    /\ lastOutcome = NoOutcome
    /\ ret = NoOutcome

\* the exception the except clause at memory.py:181 receives, if any
DirectException(out) ==
    IF out.k = "raise" THEN out
    ELSE IF out.v.t = "none" THEN Raised("Exception", "Memory client returned None")
    ELSE NoOutcome

\* memory.py:158-222: the direct call, the classification of its failure and
\* the construction of the strategy list
AddDirect(t, kw, out) ==
    LET e == DirectException(out)
    IN  /\ pc = "idle"
        /\ op' = "add"
        /\ text' = t
        /\ kwargs' = kw
        /\ calls' = <<Call(t, kw, out)>>
        /\ lastOutcome' = out
        /\ idx' = IF e.k = "raise" /\ is_json_error(e.msg) /\ ~RetryMetadataFails(kw)
                  THEN 1 ELSE 0
        /\ IF e.k = "none"
           THEN /\ error_msg' = PyNone
                /\ pc' = "done"
                /\ ret' = Returned(IF IsDict(out.v) THEN EnsureStructure(out.v)
                                   ELSE out.v)
           ELSE /\ error_msg' = PyStr(e.msg)
                /\ IF is_json_error(e.msg)
                   THEN IF RetryMetadataFails(kw)
                        THEN /\ pc' = "done"
                             /\ ret' = Raised("TypeError",
                                              "'NoneType' object is not a mapping")
                        ELSE /\ pc' = "fallback"
                             /\ ret' = NoOutcome
                   ELSE /\ pc' = "done"
                        /\ ret' = e
        /\ UNCHANGED <<gatewayVars, sessionVars, configVars, dbVars, deployVars>>

\* memory.py:224-255: one turn of the strategy loop
AddFallback(out) ==
    /\ pc = "fallback"
    /\ calls' = Append(calls, Call(FallbackText(idx, text),
                                   FallbackKwargs(idx, kwargs), out))
    /\ lastOutcome' = out
    /\ IF out.k = "return" /\ Truthy(out.v) /\ IsDict(out.v)
       THEN /\ pc' = "done"
            /\ ret' = Returned(EnsureStructure(out.v))
            /\ idx' = idx
       ELSE /\ pc' = IF idx < NumStrategies THEN "fallback" ELSE "emergency"
            /\ idx' = idx + 1
            /\ ret' = ret
    /\ UNCHANGED <<op, text, kwargs, error_msg>>
    /\ UNCHANGED <<gatewayVars, sessionVars, configVars, dbVars, deployVars>>

\* memory.py:257-292: the emergency call and the diagnostic result
AddEmergency(out) ==
    /\ pc = "emergency"
    /\ calls' = Append(calls, Call(text, EmergencyKwargs(text, kwargs), out))
    /\ lastOutcome' = out
    /\ pc' = "done"
    /\ ret' = IF out.k = "return" /\ Truthy(out.v)
              THEN Returned(out.v)
              ELSE Returned(Diagnostic(text, kwargs))
    /\ UNCHANGED <<op, text, kwargs, error_msg, idx>>
    /\ UNCHANGED <<gatewayVars, sessionVars, configVars, dbVars, deployVars>>

\* the except clause missing: the backend's exception propagates
ReadResultReraise(name, out) ==
    IF out.k = "return" THEN Returned(out.v) ELSE out

\* memory.py:294-316: search, get_all and delete_all
ReadResult(name, out) ==
    IF out.k = "return" THEN Returned(out.v)
    ELSE IF name = "delete_all"
         THEN Returned(PyDict("message" :> PyStr("Error during deletion: " \o out.msg)))
         ELSE Returned(EmptyShaped)

ReadCall(name, q, kw, out) ==
    /\ pc = "idle"
    /\ op' = name
    /\ text' = q
    /\ kwargs' = kw
    /\ error_msg' = PyNone
    /\ idx' = 0
    /\ calls' = <<Call(q, kw, out)>>
    /\ lastOutcome' = out
    /\ pc' = "done"
    /\ ret' = ReadResult(name, out)
    /\ UNCHANGED <<gatewayVars, sessionVars, configVars, dbVars, deployVars>>

Search(q, kw, out) == ReadCall("search", q, kw, out)

GetAll(kw, out) == ReadCall("get_all", "", kw, out)

DeleteAll(kw, out) == ReadCall("delete_all", "", kw, out)

\* the invocation has returned or raised; the wrapper keeps nothing of it
Finish ==
    /\ pc = "done"
    /\ pc' = "idle"
    /\ op' = "none"
    /\ text' = ""
    /\ kwargs' = EmptyMap
    /\ error_msg' = PyNone
    /\ idx' = 0
    /\ calls' = <<>>
    /\ lastOutcome' = NoOutcome
    /\ ret' = NoOutcome
    /\ UNCHANGED <<gatewayVars, sessionVars, configVars, dbVars, deployVars>>

Queries == {"coffee"}

ClientNext ==
    \/ \E t \in Texts, kw \in AddKwargs, out \in Outcomes : AddDirect(t, kw, out)
    \/ \E out \in Outcomes : AddFallback(out)
    \/ \E out \in Outcomes : AddEmergency(out)
    \/ \E q \in Queries, kw \in ReadKwargs, out \in Outcomes : Search(q, kw, out)
    \/ \E kw \in ReadKwargs, out \in Outcomes : GetAll(kw, out)
    \/ \E kw \in ReadKwargs, out \in Outcomes : DeleteAll(kw, out)
    \/ Finish

\* the store before the first tool call: no user, no application, no record
GatewayInit ==
    /\ users = {}
    /\ apps = EmptyMap
    /\ memories = EmptyMap
    /\ last = [tool |-> "none"]

\* module state of mcp_server_optimized.py after import: no connection yet
SessionInit ==
    /\ active_connections = {}
    /\ connection_counter = 0
    /\ sessions = <<>>

\* no configuration row yet, nothing cached, no client built
ConfigInit ==
    /\ stored_config = [t |-> "none"]
    /\ _config_cache = [t |-> "none"]
    /\ _memory_client = [t |-> "none"]
    /\ _config_hash = [t |-> "none"]
    /\ built = 0
    /\ retired = {}
    /\ environ = {}

MaxCallers == 2

Resolvers == 1..MaxCallers

NoRow == [id |-> 0]

NotCalled == [pc |-> "idle"]

NotRunning == [pc |-> "idle", tool |-> "none", db |-> "none", out |-> "none"]

\* empty tables, no call of get_user_and_app yet, no tool call running
TableInit ==
    /\ user_rows = <<>>
    /\ app_rows = <<>>
    /\ resolvers = [p \in Resolvers |-> NotCalled]
    /\ tool_run = NotRunning

\* a file of the deployment directory: missing, or its content piece by piece
Missing == [exists |-> FALSE]
File(content) == [exists |-> TRUE, content |-> content]

\* the import statement main.py has, and the one the script puts in its place
\* (deploy_optimized.py:60-63)
ImportOriginal == "from app.mcp_server import setup_mcp_server"
ImportOptimized == "from app.mcp_server_optimized import setup_mcp_server"

AppFiles == {"app/mcp_server.py", "app/mcp_server_optimized.py"}

\* the repository as checked out: main.py imports the original server, no
\* backup and no status file yet
DiskInit ==
    /\ main_py = File(<<ImportOriginal>>)
    /\ main_py_backup = Missing
    /\ mcp_mode = Missing
    /\ app_files = AppFiles
    /\ runs = <<>>
    /\ main_py_before = main_py

\* nothing in progress in the client, an empty store, no connection
Init == ClientInit /\ GatewayInit /\ SessionInit /\ ConfigInit /\ TableInit /\ DiskInit

SpecClient == Init /\ [][ClientNext]_vars

-----------------------------------------------------------------------------
(* Properties of ResilientMemoryClient, checked under SpecClient *)

\* the parse-failure signatures add matches the message against
ParseSignature(msg) ==
    \/ Contains(msg, "Expecting value")
    \/ Contains(msg, "JSON")
    \/ Contains(msg, "line 1 column 1")
    \/ Contains(msg, "Unterminated string")
    \/ Contains(msg, "Invalid control character")
    \/ Contains(msg, "json")

DirectCallFailed == op = "add" /\ Len(calls) >= 1 /\ calls[1].res = "raised"

ParseClassified == DirectCallFailed /\ ParseSignature(error_msg.s)

\* C5: when the direct backend add call fails with a message that matches no
\* parse-failure signature, add raises that original error after exactly one
\* backend call: no fallback and no emergency call is attempted.
C5_HardErrorSurfaced ==
    (DirectCallFailed /\ ~ParseSignature(error_msg.s)) =>
        /\ pc = "done"
        /\ Len(calls) = 1
        /\ ret.k = "raise"
        /\ ret = lastOutcome
        /\ ret.msg = error_msg.s

C5_Witness ==
    /\ DirectCallFailed
    /\ pc = "done"
    /\ ret = Raised("Exception", "Connection refused")

\* the parameters fallback k must be called with, stated from the caller's
\* text and keyword arguments
IsFallbackCall(k, c) ==
    LET md == DictGet(c.kwargs, "metadata", PyNone)
        infer == DictGet(c.kwargs, "infer", PyNone)
    IN  /\ DOMAIN kwargs \subseteq DOMAIN c.kwargs
        /\ "user_id" \in DOMAIN kwargs => c.kwargs["user_id"] = kwargs["user_id"]
        /\ CASE k = 1 -> /\ c.text = text
                         /\ infer = PyBool(FALSE)
                         /\ "metadata" \in DOMAIN kwargs => md = kwargs["metadata"]
             [] k = 2 -> /\ c.text = text
                         /\ md = PyDict("source" :> PyStr("resilient_fallback"))
                         /\ infer = DictGet(kwargs, "infer", PyNone)
             [] k = 3 -> /\ c.text = text
                         /\ infer = PyBool(TRUE)
                         /\ IsDict(md)
                         /\ "retry_attempt" \in DOMAIN md.d
                         /\ md.d["retry_attempt"] = PyBool(TRUE)
                         /\ "metadata" \in DOMAIN kwargs =>
                                \A key \in DOMAIN kwargs["metadata"].d :
                                    md.d[key] = kwargs["metadata"].d[key]
             [] k = 4 -> /\ infer = PyBool(TRUE)
                         /\ Len(c.text) <= 200
                         /\ c.text = SubSeq(Strip(text), 1, Len(c.text))
                         /\ Len(text) <= 200 => c.text = Strip(text)
                         /\ "metadata" \in DOMAIN kwargs => md = kwargs["metadata"]

C7_NeverRaises ==
    ParseClassified =>
        /\ ret.k # "raise"
        /\ pc = "done" =>
            /\ ret.k = "return"
            /\ (Len(calls) = 6 /\ calls[6].res = "raised") =>
                /\ ret.v.d["results"] = <<>>
                /\ ret.v.d["diagnostic"].all_strategies_failed
                /\ ret.v.d["diagnostic"].original_text_length = Len(text)
                /\ ret.v.d["diagnostic"].kwargs_keys = DOMAIN kwargs

\* C8: every value add, search and get_all return is a dict holding both a
\* results and a relations key.
C8_ShapeNormalized ==
    (pc = "done" /\ op \in {"add", "search", "get_all"} /\ ret.k = "return") =>
        /\ IsDict(ret.v)
        /\ {"results", "relations"} \subseteq DOMAIN ret.v.d

\* C9: search, get_all and delete_all make exactly one backend attempt and
\* never raise: on a backend exception search and get_all return the empty
\* results/relations dict, delete_all a dict whose message carries the error.
C9_ReadSingleAttempt ==
    (pc = "done" /\ op \in {"search", "get_all", "delete_all"}) =>
        /\ Len(calls) = 1
        /\ ret.k = "return"
        /\ lastOutcome.k = "raise" =>
            IF op = "delete_all"
            THEN /\ IsDict(ret.v)
                 /\ DOMAIN ret.v.d = {"message"}
                 /\ Contains(ret.v.d["message"].s, lastOutcome.msg)
            ELSE /\ IsDict(ret.v)
                 /\ DOMAIN ret.v.d = {"results", "relations"}
                 /\ ret.v.d["results"] = <<>>
                 /\ ret.v.d["relations"] =
                        [added_entities |-> <<>>, deleted_entities |-> <<>>]

C9_Witness ==
    /\ pc = "done"
    /\ op = "delete_all"
    /\ lastOutcome = Raised("Exception", "Connection refused")
    /\ ret.k = "return"

-----------------------------------------------------------------------------
(* The relational store behind the tools: app/utils/db.py and the          *)
(* SQLAlchemy session each tool opens.  A session works on a copy of the   *)
(* tables; commit publishes the copy and the rows added since the last     *)
(* commit, and closing a session drops whatever was not committed.         *)

MaxCand == 2
MaxAddResults == 2

UserIds == {"u1"}
ClientNames == {"a1", "a2"}
Uuids == {"U1", "U2"}

\* the id strings that are well-formed UUID text, and the UUID each denotes
UuidText == ("id-1" :> "U1") @@ ("id-2" :> "U2")

\* a conversion that accepts every string as an id
uuid_of_any(x) ==
    IF x.t # "str"
    THEN Raised("AttributeError", "'int' object has no attribute 'replace'")
    ELSE Returned(IF x.s \in DOMAIN UuidText THEN UuidText[x.s] ELSE x.s)

\* uuid.UUID(x): ValueError for a string that is no UUID, AttributeError for
\* a value that is no string
UUID(x) ==
    IF x.t # "str"
    THEN Raised("AttributeError", "'int' object has no attribute 'replace'")
    ELSE IF x.s \in DOMAIN UuidText THEN Returned(UuidText[x.s])
    ELSE Raised("ValueError", "badly formed hexadecimal UUID string")

\* json.loads of a tool argument: the argument is well-formed JSON text for
\* the value v, or it is not JSON
JsonText(v) == [json |-> "ok", v |-> v]
Malformed == [json |-> "malformed"]

json_loads(arg) ==
    IF arg.json = "ok" THEN Returned(arg.v)
    ELSE Raised("JSONDecodeError", "Expecting value: line 1 column 1 (char 0)")

\* json.dumps(value, indent=2)
PyJson(value) == [t |-> "str", json |-> value]

StoreError == Raised("OperationalError", "database is locked")

Tables == [users |-> users, apps |-> apps, memories |-> memories]

\* SessionLocal()
Open(D) ==
    [w |-> D, c |-> D, plog |-> <<>>, phist |-> <<>>, clog |-> <<>>, chist |-> <<>>]

\* db.commit()
Commit(S) ==
    [S EXCEPT !.c = S.w,
              !.clog = S.clog \o S.plog, !.plog = <<>>,
              !.chist = S.chist \o S.phist, !.phist = <<>>]

\* db.py:10-33
get_or_create_user(S, user_id) ==
    IF user_id \in S.w.users THEN S
    ELSE Commit([S EXCEPT !.w.users = @ \cup {user_id}])

\* db.py:36-59; a new App row is active
get_or_create_app(S, user_id, app_id) ==
    IF <<user_id, app_id>> \in DOMAIN S.w.apps THEN S
    ELSE Commit([S EXCEPT !.w.apps = @ @@ (<<user_id, app_id>> :> [is_active |-> TRUE])])

\* db.py:62-66
get_user_and_app(S, user_id, app_id) ==
    get_or_create_app(get_or_create_user(S, user_id), user_id, app_id)

\* check_memory_access_permissions(db, memory_obj, app_id) as the tools call
\* it: the rule lives in app.utils.permissions, so its answer is left open
\* and given by the set of records it accepts for the calling application
\* at the time of the call
check_memory_access_permissions(acc, memory_id) == memory_id \in acc

AccessEvent(memory_id, app_id, access_type) ==
    [memory_id |-> memory_id, app_id |-> app_id, access_type |-> access_type]

\* the helper that records only the first id
log_first_only(S, memory_ids, app_id, access_type, fault) ==
    IF fault = "audit" THEN StoreError
    ELSE [k |-> "ok",
          S |-> Commit([S EXCEPT !.plog = @ \o
                    [i \in 1..Min(1, Len(memory_ids)) |->
                        AccessEvent(memory_ids[i], app_id, access_type)]])]

\* mcp_server_optimized.py:65-78; fault = "audit": the store fails the write
log_memory_access(S, memory_ids, app_id, access_type, fault) ==
    IF fault = "audit" THEN StoreError
    ELSE [k |-> "ok",
          S |-> Commit([S EXCEPT !.plog = @ \o
                    [i \in 1..Len(memory_ids) |->
                        AccessEvent(memory_ids[i], app_id, access_type)]])]

NoRecords == [k |-> "ok", records |-> <<>>, ids |-> <<>>]

\* mcp_server_optimized.py:97-107 and 109-119: the loop over the candidates;
\* ValueError skips the item, any other exception leaves the loop
RECURSIVE FilterLoop(_, _, _, _, _)
FilterLoop(items, S, acc, fault, out) ==
    IF items = <<>> THEN out
    ELSE IF ~(IsDict(Head(items)) /\ "id" \in DOMAIN Head(items).d)
    THEN FilterLoop(Tail(items), S, acc, fault, out)
    ELSE LET u == UUID(Head(items).d["id"])
         IN  IF u.k = "raise"
             THEN IF u.type = "ValueError"
                  THEN FilterLoop(Tail(items), S, acc, fault, out)
                  ELSE u
             ELSE IF fault = "query" THEN StoreError
             ELSE IF /\ u.v \in DOMAIN S.w.memories
                     /\ check_memory_access_permissions(acc, u.v)
                  THEN FilterLoop(Tail(items), S, acc, fault,
                           [out EXCEPT !.records = Append(@, Head(items)),
                                       !.ids = Append(@, u.v)])
                  ELSE FilterLoop(Tail(items), S, acc, fault, out)

\* the filter that trusts the caller's user id without resolving it
filter_unresolved(S, mems, user_id, acc, fault) ==
    IF ~Truthy(mems) THEN NoRecords
    ELSE LET items == IF IsDict(mems) /\ "results" \in DOMAIN mems.d
                      THEN mems.d["results"]
                      ELSE IF mems.t = "list" THEN mems.items ELSE <<>>
             r == FilterLoop(items, S, acc, fault, NoRecords)
         IN  IF r.k = "raise" THEN NoRecords ELSE r

\* mcp_server_optimized.py:80-125
filter_accessible_memories(S, mems, user_id, acc, fault) ==
    IF ~Truthy(mems) THEN NoRecords
    ELSE IF user_id \notin S.w.users THEN NoRecords
    ELSE LET items == IF IsDict(mems) /\ "results" \in DOMAIN mems.d
                      THEN mems.d["results"]
                      ELSE IF mems.t = "list" THEN mems.items ELSE <<>>
             r == FilterLoop(items, S, acc, fault, NoRecords)
         IN  IF r.k = "raise" THEN NoRecords ELSE r

-----------------------------------------------------------------------------
(* The MCP tools of app/mcp_server_optimized.py.  A tool body contains no  *)
(* await, so one invocation is one step.  `last` records the invocation:   *)
(* its inputs, the backend call it made and the outcome the backend gave,  *)
(* the string it returned (or the exception that left it) and the access   *)
(* events and status-history rows it committed.                            *)

GatewayMsgs == {"Connection refused"}

BackendErrors == {Raised("Exception", m) : m \in GatewayMsgs}

Done(S, out) == [S |-> S, out |-> out]

Text(s) == Returned(PyStr(s))

NoCall == [op |-> "none"]

\* db = SessionLocal(); user, app = get_user_and_app(db, ...)
Session(D, user_id, client_name) == get_user_and_app(Open(D), user_id, client_name)

\* the identity check made only after the session has resolved the caller
GuardedLate(user_id, client_name, fault, D, body) ==
    IF user_id = "" \/ client_name = ""
    THEN Done(Session(D, user_id, client_name),
              Text("Error: user_id and client_name are required"))
    ELSE IF fault = "client"
    THEN Done(Open(D), Text("Error: Memory system is currently unavailable. Please try again later."))
    ELSE body

\* any tool, lines 129-140 of add_memories: the identity bound to the
\* session and the shared memory client
Guarded(user_id, client_name, fault, D, body) ==
    IF user_id = "" \/ client_name = ""
    THEN Done(Open(D), Text("Error: user_id and client_name are required"))
    ELSE IF fault = "client"
    THEN Done(Open(D), Text("Error: Memory system is currently unavailable. Please try again later."))
    ELSE body

\* try: user, app = get_user_and_app(...); <body> finally: db.close()
\* with b the outcome of the body in the session
InSession(D, fault, b) ==
    IF fault = "resolve" THEN Done(Open(D), StoreError)
    ELSE IF fault = "close" THEN Done(b.S, StoreError)
    ELSE b

\* a tool without its outermost handler
NoCatch(prefix, b) == b

\* except Exception as e: return f"<prefix>: {e}"
OuterCatch(prefix, b) ==
    IF b.out.k = "raise" THEN Done(b.S, Text(prefix \o b.out.msg)) ELSE b

\* the invocation as `last` records it
Invocation(tool, user_id, client_name, arg, call, resp, acc, fault, b) ==
    [tool |-> tool, user_id |-> user_id, client_name |-> client_name,
     arg |-> arg, call |-> call, resp |-> resp, acc |-> acc, fault |-> fault,
     ret |-> b.out, logged |-> b.S.clog, hist |-> b.S.chist]

\* the effect of an invocation: what its session committed
Effect(b, inv) ==
    /\ users' = b.S.c.users
    /\ apps' = b.S.c.apps
    /\ memories' = b.S.c.memories
    /\ last' = inv
    /\ UNCHANGED <<clientVars, sessionVars, configVars, dbVars, deployVars>>

Reaches(user_id, client_name, fault) ==
    user_id # "" /\ client_name # "" /\ fault \notin {"client", "resolve"}

\* mcp_server_optimized.py:249-288
search_memory_body(S, user_id, client_name, filters, resp, acc, fault) ==
    LET filters_dict == json_loads(filters)
    IN  IF filters_dict.k = "raise"
        THEN Done(S, Text("Error parsing filters JSON: " \o filters_dict.msg))
        ELSE IF resp.k = "raise"
        THEN Done(S, Text("Error searching memory: " \o resp.msg))
        ELSE LET mems == IF resp.v = PyNone THEN PyList(<<>>) ELSE resp.v
                 r == filter_accessible_memories(S, mems, user_id, acc, fault)
             IN  IF r.ids = <<>> THEN Done(S, Returned(PyJson(PyList(r.records))))
                 ELSE LET lg == log_memory_access(S, r.ids, client_name, "search", fault)
                      IN  IF lg.k = "raise" THEN Done(S, lg)
                          ELSE Done(lg.S, Returned(PyJson(PyList(r.records))))

\* mcp_server_optimized.py:232-294
search_memory(D, user_id, client_name, filters, resp, acc, fault) ==
    Guarded(user_id, client_name, fault, D,
        OuterCatch("Error searching memory: ",
            InSession(D, fault,
                search_memory_body(Session(D, user_id, client_name),
                    user_id, client_name, filters, resp, acc, fault))))

\* mcp_server_optimized.py:313-338
list_memories_body(S, user_id, client_name, resp, acc, fault) ==
    IF resp.k = "raise"
    THEN Done(S, Text("Error listing memories: " \o resp.msg))
    ELSE LET mems == IF resp.v = PyNone THEN PyList(<<>>) ELSE resp.v
             r == filter_accessible_memories(S, mems, user_id, acc, fault)
         IN  IF r.ids = <<>> THEN Done(S, Returned(PyJson(PyList(r.records))))
             ELSE LET lg == log_memory_access(S, r.ids, client_name, "list", fault)
                  IN  IF lg.k = "raise" THEN Done(S, lg)
                      ELSE Done(lg.S, Returned(PyJson(PyList(r.records))))

\* mcp_server_optimized.py:296-344
list_memories(D, user_id, client_name, resp, acc, fault) ==
    Guarded(user_id, client_name, fault, D,
        OuterCatch("Error listing memories: ",
            InSession(D, fault,
                list_memories_body(Session(D, user_id, client_name),
                    user_id, client_name, resp, acc, fault))))

\* the same with every exception of the write swallowed
LogOneSwallowed(S, memory_id, client_name, access_type, fault) ==
    LET u == UUID(PyStr(memory_id))
    IN  IF u.k = "raise" \/ fault = "audit" THEN [k |-> "ok", S |-> S]
        ELSE log_memory_access(S, <<u.v>>, client_name, access_type, fault)

\* try: log_memory_access(db, [uuid.UUID(memory_id)], app.id, <type>, ...)
\* except ValueError: pass
LogOne(S, memory_id, client_name, access_type, fault) ==
    LET u == UUID(PyStr(memory_id))
    IN  IF u.k = "raise" THEN [k |-> "ok", S |-> S]
        ELSE log_memory_access(S, <<u.v>>, client_name, access_type, fault)

\* mcp_server_optimized.py:538-559
get_memory_body(S, client_name, memory_id, resp, fault) ==
    IF resp.k = "raise"
    THEN Done(S, Text("Error getting memory: " \o resp.msg))
    ELSE IF resp.v = PyNone
    THEN Done(S, Text("Memory with ID " \o memory_id \o " not found"))
    ELSE LET lg == LogOne(S, memory_id, client_name, "get", fault)
         IN  IF lg.k = "raise" THEN Done(S, lg)
             ELSE Done(lg.S, Returned(PyJson(resp.v)))

\* mcp_server_optimized.py:521-565
get_memory(D, user_id, client_name, memory_id, resp, fault) ==
    Guarded(user_id, client_name, fault, D,
        OuterCatch("Error getting memory: ",
            InSession(D, fault,
                get_memory_body(Session(D, user_id, client_name),
                    client_name, memory_id, resp, fault))))

\* mcp_server_optimized.py:705-726
get_memory_history_body(S, client_name, memory_id, resp, fault) ==
    IF resp.k = "raise"
    THEN Done(S, Text("Error getting memory history: " \o resp.msg))
    ELSE IF resp.v = PyNone
    THEN Done(S, Text("No history found for memory " \o memory_id))
    ELSE LET lg == LogOne(S, memory_id, client_name, "history", fault)
         IN  IF lg.k = "raise" THEN Done(S, lg)
             ELSE Done(lg.S, Returned(PyJson(resp.v)))

\* mcp_server_optimized.py:688-732
get_memory_history(D, user_id, client_name, memory_id, resp, fault) ==
    Guarded(user_id, client_name, fault, D,
        OuterCatch("Error getting memory history: ",
            InSession(D, fault,
                get_memory_history_body(Session(D, user_id, client_name),
                    client_name, memory_id, resp, fault))))

UuidOrder == <<"U1", "U2">>

StatusChange(memory_id, old_state, new_state) ==
    [memory_id |-> memory_id, old_state |-> old_state, new_state |-> new_state]

\* mcp_server_optimized.py:188-215: the shadow rows for the results of an add
RECURSIVE AddResults(_, _, _, _)
AddResults(results, S, user_id, client_name) ==
    IF results = <<>> THEN [k |-> "ok", S |-> S]
    ELSE LET result == Head(results).d
             u == UUID(result["id"])
         IN  IF u.k = "raise" THEN u
             ELSE IF result["event"].s \in {"ADD", "UPDATE"}
             THEN LET row == IF u.v \in DOMAIN S.w.memories
                             THEN S.w.memories[u.v]
                             ELSE [user_id |-> user_id, app_id |-> client_name,
                                   state |-> "active"]
                  IN  AddResults(Tail(results),
                          [S EXCEPT !.w.memories = (u.v :> row) @@ @,
                                    !.phist = Append(@, StatusChange(u.v, row.state, "active"))],
                          user_id, client_name)
             ELSE AddResults(Tail(results), S, user_id, client_name)

\* mcp_server_optimized.py:158-162
final_metadata(client_name, metadata_dict) ==
    Merge(("source_app" :> PyStr("openmemory")) @@ ("mcp_client" :> PyStr(client_name)),
          metadata_dict)

\* mcp_server_optimized.py:148-224
add_memories_body(S, user_id, client_name, metadata, resp, fault) ==
    IF ~S.w.apps[<<user_id, client_name>>].is_active
    THEN Done(S, Text("Error: App " \o client_name \o
                      " is currently paused. Cannot create new memories."))
    ELSE LET metadata_dict == json_loads(metadata)
         IN  IF metadata_dict.k = "raise"
             THEN Done(S, Text("Error parsing JSON parameters: " \o metadata_dict.msg))
             ELSE IF ~IsDict(metadata_dict.v)
             THEN Done(S, Raised("TypeError", "'list' object is not a mapping"))
             ELSE IF resp.k = "raise"
             THEN Done(S, Text("Error adding memory: " \o resp.msg))
             ELSE IF resp.v = PyNone
             THEN Done(S, Text("Warning: Memory add operation completed but returned no response"))
             ELSE IF IsDict(resp.v) /\ "results" \in DOMAIN resp.v.d
             THEN LET r == AddResults(resp.v.d["results"], S, user_id, client_name)
                  IN  IF r.k = "raise" THEN Done(S, r)
                      ELSE IF fault = "commit" THEN Done(r.S, StoreError)
                      ELSE Done(Commit(r.S), Returned(PyJson(resp.v)))
             ELSE Done(S, Returned(PyJson(resp.v)))

\* mcp_server_optimized.py:127-230
add_memories(D, user_id, client_name, metadata, resp, fault) ==
    Guarded(user_id, client_name, fault, D,
        OuterCatch("Error adding memory: ",
            InSession(D, fault,
                add_memories_body(Session(D, user_id, client_name),
                    user_id, client_name, metadata, resp, fault))))

\* memory.state = MemoryState.deleted with its history row
\* (mcp_server_optimized.py:387-397, 657-667, 874-884)
MarkDeleted(S, memory_id) ==
    [S EXCEPT !.w.memories[memory_id].state = "deleted",
              !.phist = Append(@, StatusChange(memory_id, "active", "deleted"))]

RECURSIVE MarkAllDeleted(_, _)
MarkAllDeleted(S, memory_ids) ==
    IF memory_ids = <<>> THEN S
    ELSE MarkAllDeleted(
             IF Head(memory_ids) \in DOMAIN S.w.memories
             THEN MarkDeleted(S, Head(memory_ids)) ELSE S,
             Tail(memory_ids))

\* mcp_server_optimized.py:364-407
delete_all_memories_body(S, user_id, client_name, resp, acc, fault) ==
    IF fault = "query" THEN Done(S, StoreError)
    ELSE LET accessible_memory_ids ==
                 SelectSeq(UuidOrder, LAMBDA u :
                     /\ u \in DOMAIN S.w.memories
                     /\ S.w.memories[u].user_id = user_id
                     /\ check_memory_access_permissions(acc, u))
         IN  IF resp.k = "raise"
             THEN Done(S, Text("Error deleting memories: " \o resp.msg))
             ELSE LET S1 == MarkAllDeleted(S, accessible_memory_ids)
                      lg == IF accessible_memory_ids = <<>> THEN [k |-> "ok", S |-> S1]
                            ELSE log_memory_access(S1, accessible_memory_ids,
                                                   client_name, "delete_all", fault)
                  IN  IF lg.k = "raise" THEN Done(S1, lg)
                      ELSE IF fault = "commit" THEN Done(lg.S, StoreError)
                      ELSE Done(Commit(lg.S),
                                Text("Successfully deleted " \o
                                     ToString(Len(accessible_memory_ids)) \o
                                     " accessible memories"))

\* mcp_server_optimized.py:346-413
delete_all_memories(D, user_id, client_name, resp, acc, fault) ==
    Guarded(user_id, client_name, fault, D,
        OuterCatch("Error deleting memories: ",
            InSession(D, fault,
                delete_all_memories_body(Session(D, user_id, client_name),
                    user_id, client_name, resp, acc, fault))))

\* mcp_server_optimized.py:590-616
update_memory_body(S, client_name, memory_id, resp, fault) ==
    IF resp.k = "raise"
    THEN Done(S, Text("Error updating memory: " \o resp.msg))
    ELSE IF resp.v = PyNone
    THEN Done(S, Text("Memory with ID " \o memory_id \o
                      " not found or could not be updated"))
    ELSE LET lg == LogOne(S, memory_id, client_name, "update", fault)
         IN  IF lg.k = "raise" THEN Done(S, lg)
             ELSE Done(lg.S, Returned(PyJson(resp.v)))

\* mcp_server_optimized.py:581-584: metadata that is not JSON becomes {}
update_metadata(metadata) ==
    LET metadata_dict == json_loads(metadata)
    IN  IF metadata_dict.k = "raise" THEN PyDict(EmptyMap) ELSE metadata_dict.v

\* mcp_server_optimized.py:567-622
update_memory(D, user_id, client_name, memory_id, resp, fault) ==
    Guarded(user_id, client_name, fault, D,
        OuterCatch("Error updating memory: ",
            InSession(D, fault,
                update_memory_body(Session(D, user_id, client_name),
                    client_name, memory_id, resp, fault))))

\* mcp_server_optimized.py:642-680
delete_memory_body(S, client_name, memory_id, resp, fault) ==
    IF resp.k = "raise"
    THEN Done(S, Text("Error deleting memory: " \o resp.msg))
    ELSE LET memory_uuid == UUID(PyStr(memory_id))
             ok == Text("Successfully deleted memory " \o memory_id)
         IN  IF memory_uuid.k = "raise" THEN Done(S, ok)
             ELSE IF fault = "query" THEN Done(S, StoreError)
             ELSE IF memory_uuid.v \notin DOMAIN S.w.memories THEN Done(S, ok)
             ELSE LET S1 == MarkDeleted(S, memory_uuid.v)
                      lg == log_memory_access(S1, <<memory_uuid.v>>, client_name,
                                              "delete", fault)
                  IN  IF lg.k = "raise" THEN Done(S1, lg)
                      ELSE IF fault = "commit" THEN Done(lg.S, StoreError)
                      ELSE Done(Commit(lg.S), ok)

\* mcp_server_optimized.py:624-686
delete_memory(D, user_id, client_name, memory_id, resp, fault) ==
    Guarded(user_id, client_name, fault, D,
        OuterCatch("Error deleting memory: ",
            InSession(D, fault,
                delete_memory_body(Session(D, user_id, client_name),
                    client_name, memory_id, resp, fault))))

\* mcp_server_optimized.py:746-758
get_entities_body(S, resp) ==
    IF resp.k = "raise"
    THEN Done(S, Text("Error getting entities: " \o resp.msg))
    ELSE IF resp.v = PyNone THEN Done(S, Text("No entities found"))
    ELSE Done(S, Returned(PyJson(resp.v)))

\* mcp_server_optimized.py:734-762
get_entities(D, user_id, client_name, resp, fault) ==
    Guarded(user_id, client_name, fault, D,
        OuterCatch("Error getting entities: ", get_entities_body(Open(D), resp)))

\* mcp_server_optimized.py:805-811: the ids of a batch update
RECURSIVE UpdateIds(_, _)
UpdateIds(updates, out) ==
    IF updates = <<>> THEN [k |-> "ok", ids |-> out]
    ELSE IF "memory_id" \notin DOMAIN Head(updates).d
    THEN UpdateIds(Tail(updates), out)
    ELSE LET u == UUID(Head(updates).d["memory_id"])
         IN  IF u.k = "raise"
             THEN IF u.type = "ValueError" THEN UpdateIds(Tail(updates), out) ELSE u
             ELSE UpdateIds(Tail(updates), Append(out, u.v))

\* mcp_server_optimized.py:793-819
batch_update_memories_body(S, client_name, updates, resp, fault) ==
    IF resp.k = "raise"
    THEN Done(S, Text("Error in batch update: " \o resp.msg))
    ELSE IF resp.v = PyNone
    THEN Done(S, Text("Batch update completed (returned None)"))
    ELSE LET r == UpdateIds(updates, <<>>)
         IN  IF r.k = "raise" THEN Done(S, r)
             ELSE IF r.ids = <<>> THEN Done(S, Returned(PyJson(resp.v)))
             ELSE LET lg == log_memory_access(S, r.ids, client_name,
                                              "batch_update", fault)
                  IN  IF lg.k = "raise" THEN Done(S, lg)
                      ELSE Done(lg.S, Returned(PyJson(resp.v)))

\* mcp_server_optimized.py:764-825
batch_update_memories(D, user_id, client_name, updates_json, resp, fault) ==
    Guarded(user_id, client_name, fault, D,
        OuterCatch("Error in batch update: ",
            LET updates == json_loads(updates_json)
            IN  IF updates.k = "raise"
                THEN Done(Open(D), Text("Error parsing updates JSON: " \o updates.msg))
                ELSE IF updates.v.t # "list"
                THEN Done(Open(D), Text("Error: updates must be a JSON array"))
                ELSE InSession(D, fault,
                         batch_update_memories_body(Session(D, user_id, client_name),
                             client_name,
                                        updates.v.items, resp, fault))))

\* mcp_server_optimized.py:868-888
RECURSIVE DeleteLoop(_, _, _, _)
DeleteLoop(memory_ids, S, fault, valid_uuids) ==
    IF memory_ids = <<>> THEN [k |-> "ok", S |-> S, valid_uuids |-> valid_uuids]
    ELSE LET memory_uuid == UUID(Head(memory_ids))
         IN  IF memory_uuid.k = "raise"
             THEN IF memory_uuid.type = "ValueError"
                  THEN DeleteLoop(Tail(memory_ids), S, fault, valid_uuids)
                  ELSE memory_uuid
             ELSE IF fault = "query" THEN StoreError
             ELSE IF memory_uuid.v \in DOMAIN S.w.memories
             THEN DeleteLoop(Tail(memory_ids), MarkDeleted(S, memory_uuid.v), fault,
                             Append(valid_uuids, memory_uuid.v))
             ELSE DeleteLoop(Tail(memory_ids), S, fault, valid_uuids)

\* mcp_server_optimized.py:856-898
batch_delete_memories_body(S, client_name, memory_ids, resp, fault) ==
    IF resp.k = "raise"
    THEN Done(S, Text("Error in batch delete: " \o resp.msg))
    ELSE LET r == DeleteLoop(memory_ids, S, fault, <<>>)
         IN  IF r.k = "raise" THEN Done(S, r)
             ELSE LET lg == IF r.valid_uuids = <<>> THEN [k |-> "ok", S |-> r.S]
                            ELSE log_memory_access(r.S, r.valid_uuids, client_name,
                                                   "batch_delete", fault)
                  IN  IF lg.k = "raise" THEN Done(r.S, lg)
                      ELSE IF fault = "commit" THEN Done(lg.S, StoreError)
                      ELSE Done(Commit(lg.S),
                                Text("Successfully batch deleted " \o
                                     ToString(Len(r.valid_uuids)) \o " memories"))

\* mcp_server_optimized.py:827-904
batch_delete_memories(D, user_id, client_name, memory_ids_json, resp, fault) ==
    Guarded(user_id, client_name, fault, D,
        OuterCatch("Error in batch delete: ",
            LET memory_ids == json_loads(memory_ids_json)
            IN  IF memory_ids.k = "raise"
                THEN Done(Open(D), Text("Error parsing memory_ids JSON: " \o memory_ids.msg))
                ELSE IF memory_ids.v.t # "list"
                THEN Done(Open(D), Text("Error: memory_ids must be a JSON array"))
                ELSE InSession(D, fault,
                         batch_delete_memories_body(Session(D, user_id, client_name),
                             client_name,
                                        memory_ids.v.items, resp, fault))))

-----------------------------------------------------------------------------
(* Invocations: the identity bound to the session, the arguments, what the *)
(* backend answers, which records the access rule accepts for the calling  *)
(* application, and the one point (if any) where the store fails.          *)

SeqsUpTo(S, n) == UNION {[1..k -> S] : k \in 0..n}

Callers == {<<"u1", "a1">>, <<"u1", "a2">>, <<"", "a1">>, <<"u1", "">>}

IdValues == {PyStr("id-1"), PyStr("id-2"), PyStr("not-a-uuid"), PyInt(42)}

MemoryIdArgs == {"id-1", "id-2", "not-a-uuid"}

CandItems == {PyDict([id |-> v]) : v \in IdValues}

CandLists == SeqsUpTo(CandItems, MaxCand)

ListResponses ==
    BackendErrors \cup {Returned(PyNone)}
    \cup {Returned(PyList(c)) : c \in CandLists}
    \cup {Returned(PyDict("results" :> c)) : c \in CandLists}

AddItems ==
    {PyDict([id |-> PyStr(i), event |-> PyStr(e), memory |-> PyStr("likes coffee")]) :
        i \in MemoryIdArgs, e \in {"ADD", "DELETE"}}

Message(m) == Returned(PyDict("message" :> PyStr(m)))

AddResponses ==
    BackendErrors \cup {Returned(PyNone), Returned(PyList(<<>>)), Message("ok")}
    \cup {Returned(PyDict("results" :> r)) : r \in SeqsUpTo(AddItems, MaxAddResults)}

MetadataArgs ==
    {JsonText(PyDict(EmptyMap)), JsonText(PyDict("mcp_client" :> PyStr("cli"))),
     JsonText(PyList(<<>>)), Malformed}

FilterArgs == {JsonText(PyDict(EmptyMap)), Malformed}

BatchIdArgs ==
    {JsonText(PyList(ids)) : ids \in SeqsUpTo(IdValues, MaxCand)}
    \cup {JsonText(PyDict(EmptyMap)), Malformed}

BatchUpdateArgs ==
    {JsonText(PyList(us)) :
        us \in SeqsUpTo({PyDict([memory_id |-> v, text |-> PyStr("likes tea")]) :
                             v \in IdValues}, MaxCand)}
    \cup {JsonText(PyDict(EmptyMap)), Malformed}

GetResponses(memory_id) ==
    BackendErrors \cup {Returned(PyNone), Returned(PyDict([id |-> PyStr(memory_id)]))}

HistoryResponses(memory_id) ==
    BackendErrors \cup
    {Returned(PyNone),
     Returned(PyList(<<PyDict([memory_id |-> PyStr(memory_id), event |-> PyStr("ADD")])>>))}

WriteResponses == BackendErrors \cup {Returned(PyNone), Message("ok")}

\* the records a sequence of id values names
UuidsOf(ids) ==
    {UUID(ids[i]).v : i \in {j \in 1..Len(ids) : UUID(ids[j]).k = "return"}}

ItemIds(items, key) == [i \in 1..Len(items) |-> items[i].d[key]]

Candidates(resp) ==
    IF resp.k # "return" THEN <<>>
    ELSE IF resp.v.t = "list" THEN resp.v.items
    ELSE IF IsDict(resp.v) /\ "results" \in DOMAIN resp.v.d THEN resp.v.d["results"]
    ELSE <<>>

\* the grants the access rule may hold for the caller, among stored records
Grants(ids) == SUBSET (DOMAIN memories \cap ids)

Valid(caller) == caller[1] # "" /\ caller[2] # ""

FaultsFor(caller, faults) == IF Valid(caller) THEN {"none", "client", "resolve"} \cup faults
                             ELSE {"none"}

CallOf(name, resp) == IF resp = NoOutcome THEN NoCall ELSE [op |-> name]

\* no invocation is being served
Idle == last.tool = "none"

SearchMemory ==
    /\ Idle
    /\ \E caller \in Callers :
       \E fault \in FaultsFor(caller, {"query", "audit", "close"}) :
       \E filters \in IF Reaches(caller[1], caller[2], fault) THEN FilterArgs
                      ELSE {JsonText(PyDict(EmptyMap))} :
       \E resp \in IF Reaches(caller[1], caller[2], fault) /\ filters.json = "ok"
                   THEN ListResponses ELSE {NoOutcome} :
       \E acc \in Grants(UuidsOf(ItemIds(Candidates(resp), "id"))) :
           Effect(search_memory(Tables, caller[1], caller[2], filters, resp, acc, fault),
                  Invocation("search_memory", caller[1], caller[2], filters,
                             CallOf("search", resp), resp, acc, fault,
                             search_memory(Tables, caller[1], caller[2], filters,
                                           resp, acc, fault)))

ListMemories ==
    /\ Idle
    /\ \E caller \in Callers :
       \E fault \in FaultsFor(caller, {"query", "audit", "close"}) :
       \E resp \in IF Reaches(caller[1], caller[2], fault)
                   THEN ListResponses ELSE {NoOutcome} :
       \E acc \in Grants(UuidsOf(ItemIds(Candidates(resp), "id"))) :
           Effect(list_memories(Tables, caller[1], caller[2], resp, acc, fault),
                  Invocation("list_memories", caller[1], caller[2], NoOutcome,
                             CallOf("get_all", resp), resp, acc, fault,
                             list_memories(Tables, caller[1], caller[2], resp, acc, fault)))

GetMemory ==
    /\ Idle
    /\ \E caller \in Callers, memory_id \in MemoryIdArgs :
       \E fault \in FaultsFor(caller, {"audit", "close"}) :
       \E resp \in IF Reaches(caller[1], caller[2], fault)
                   THEN GetResponses(memory_id) ELSE {NoOutcome} :
       \E acc \in Grants(UuidsOf(<<PyStr(memory_id)>>)) :
           Effect(get_memory(Tables, caller[1], caller[2], memory_id, resp, fault),
                  Invocation("get_memory", caller[1], caller[2], memory_id,
                             CallOf("get", resp), resp, acc, fault,
                             get_memory(Tables, caller[1], caller[2], memory_id, resp, fault)))

GetMemoryHistory ==
    /\ Idle
    /\ \E caller \in Callers, memory_id \in MemoryIdArgs :
       \E fault \in FaultsFor(caller, {"audit", "close"}) :
       \E resp \in IF Reaches(caller[1], caller[2], fault)
                   THEN HistoryResponses(memory_id) ELSE {NoOutcome} :
       \E acc \in Grants(UuidsOf(<<PyStr(memory_id)>>)) :
           Effect(get_memory_history(Tables, caller[1], caller[2], memory_id, resp, fault),
                  Invocation("get_memory_history", caller[1], caller[2], memory_id,
                             CallOf("history", resp), resp, acc, fault,
                             get_memory_history(Tables, caller[1], caller[2], memory_id,
                                                resp, fault)))

\* the add call is reached: the application is not paused and the metadata
\* argument is a JSON object
AddReached(caller, fault, metadata) ==
    /\ Reaches(caller[1], caller[2], fault)
    /\ (caller \in DOMAIN apps => apps[caller].is_active)
    /\ metadata.json = "ok"
    /\ IsDict(metadata.v)

AddMemories ==
    /\ Idle
    /\ \E caller \in Callers :
       \E fault \in FaultsFor(caller, {"commit", "close"}) :
       \E metadata \in IF Reaches(caller[1], caller[2], fault) THEN MetadataArgs
                       ELSE {JsonText(PyDict(EmptyMap))} :
       \E resp \in IF AddReached(caller, fault, metadata)
                   THEN AddResponses ELSE {NoOutcome} :
           Effect(add_memories(Tables, caller[1], caller[2], metadata, resp, fault),
                  Invocation("add_memories", caller[1], caller[2], metadata,
                             IF resp = NoOutcome THEN NoCall
                             ELSE [op |-> "add", user_id |-> caller[1],
                                   metadata |-> final_metadata(caller[2], metadata.v.d)],
                             resp, {}, fault,
                             add_memories(Tables, caller[1], caller[2], metadata, resp, fault)))

\* what delete_all_memories gets from memory_client.delete_all when the
\* engine's outcome is out: the outcome itself (raw client), or what
\* ResilientMemoryClient.delete_all makes of it
DeleteAllResponses(out) == {out, ReadResult("delete_all", out)}

DeleteAllMemories ==
    /\ Idle
    /\ \E caller \in Callers :
       \E fault \in FaultsFor(caller, {"query", "audit", "commit", "close"}) :
       \E out \in IF Reaches(caller[1], caller[2], fault) /\ fault # "query"
                  THEN WriteResponses ELSE {NoOutcome} :
       \E resp \in IF out = NoOutcome THEN {NoOutcome} ELSE DeleteAllResponses(out) :
       \E acc \in Grants(Uuids) :
           Effect(delete_all_memories(Tables, caller[1], caller[2], resp, acc, fault),
                  Invocation("delete_all_memories", caller[1], caller[2], NoOutcome,
                             IF resp = NoOutcome THEN NoCall
                             ELSE [op |-> "delete_all", performed |-> out.k = "return"],
                             resp, acc, fault,
                             delete_all_memories(Tables, caller[1], caller[2], resp, acc, fault)))

UpdateMemory ==
    /\ Idle
    /\ \E caller \in Callers, memory_id \in MemoryIdArgs :
       \E metadata \in {JsonText(PyDict(EmptyMap)), Malformed} :
       \E fault \in FaultsFor(caller, {"audit", "close"}) :
       \E resp \in IF Reaches(caller[1], caller[2], fault)
                   THEN WriteResponses ELSE {NoOutcome} :
       \E acc \in Grants(UuidsOf(<<PyStr(memory_id)>>)) :
           Effect(update_memory(Tables, caller[1], caller[2], memory_id, resp, fault),
                  Invocation("update_memory", caller[1], caller[2],
                             [memory_id |-> memory_id, metadata |-> metadata],
                             IF resp = NoOutcome THEN NoCall
                             ELSE [op |-> "update", metadata |-> update_metadata(metadata)],
                             resp, acc, fault,
                             update_memory(Tables, caller[1], caller[2], memory_id, resp, fault)))

DeleteMemory ==
    /\ Idle
    /\ \E caller \in Callers, memory_id \in MemoryIdArgs :
       \E fault \in FaultsFor(caller, {"query", "audit", "commit", "close"}) :
       \E resp \in IF Reaches(caller[1], caller[2], fault)
                   THEN WriteResponses ELSE {NoOutcome} :
       \E acc \in Grants(UuidsOf(<<PyStr(memory_id)>>)) :
           Effect(delete_memory(Tables, caller[1], caller[2], memory_id, resp, fault),
                  Invocation("delete_memory", caller[1], caller[2], memory_id,
                             CallOf("delete", resp), resp, acc, fault,
                             delete_memory(Tables, caller[1], caller[2], memory_id, resp, fault)))

GetEntities ==
    /\ Idle
    /\ \E caller \in Callers :
       \E fault \in IF Valid(caller) THEN {"none", "client"} ELSE {"none"} :
       \E resp \in IF Valid(caller) /\ fault = "none"
                   THEN WriteResponses ELSE {NoOutcome} :
           Effect(get_entities(Tables, caller[1], caller[2], resp, fault),
                  Invocation("get_entities", caller[1], caller[2], NoOutcome,
                             CallOf("users", resp), resp, {}, fault,
                             get_entities(Tables, caller[1], caller[2], resp, fault)))

\* the batch tools reach the backend with a JSON array
BatchReached(caller, fault, arg) ==
    /\ Reaches(caller[1], caller[2], fault)
    /\ arg.json = "ok"
    /\ arg.v.t = "list"

BatchUpdateMemories ==
    /\ Idle
    /\ \E caller \in Callers :
       \E fault \in FaultsFor(caller, {"audit", "close"}) :
       \E updates_json \in IF Valid(caller) /\ fault # "client" THEN BatchUpdateArgs
                           ELSE {Malformed} :
       \E resp \in IF BatchReached(caller, fault, updates_json)
                   THEN WriteResponses ELSE {NoOutcome} :
       \E acc \in IF BatchReached(caller, fault, updates_json)
                  THEN Grants(UuidsOf(ItemIds(updates_json.v.items, "memory_id")))
                  ELSE {{}} :
           Effect(batch_update_memories(Tables, caller[1], caller[2], updates_json, resp, fault),
                  Invocation("batch_update_memories", caller[1], caller[2], updates_json,
                             CallOf("batch_update", resp), resp, acc, fault,
                             batch_update_memories(Tables, caller[1], caller[2],
                                                   updates_json, resp, fault)))

BatchDeleteMemories ==
    /\ Idle
    /\ \E caller \in Callers :
       \E fault \in FaultsFor(caller, {"query", "audit", "commit", "close"}) :
       \E memory_ids_json \in IF Valid(caller) /\ fault # "client" THEN BatchIdArgs
                              ELSE {Malformed} :
       \E resp \in IF BatchReached(caller, fault, memory_ids_json)
                   THEN WriteResponses ELSE {NoOutcome} :
       \E acc \in IF BatchReached(caller, fault, memory_ids_json)
                  THEN Grants(UuidsOf(memory_ids_json.v.items)) ELSE {{}} :
           Effect(batch_delete_memories(Tables, caller[1], caller[2], memory_ids_json,
                                        resp, fault),
                  Invocation("batch_delete_memories", caller[1], caller[2], memory_ids_json,
                             CallOf("batch_delete", resp), resp, acc, fault,
                             batch_delete_memories(Tables, caller[1], caller[2],
                                                   memory_ids_json, resp, fault)))

\* the applications API pauses and resumes an application (App.is_active)
PauseApp ==
    \E key \in DOMAIN apps :
        /\ Idle
        /\ apps[key].is_active
        /\ apps' = [apps EXCEPT ![key].is_active = FALSE]
        /\ UNCHANGED <<users, memories, last>>
        /\ UNCHANGED <<clientVars, sessionVars, configVars, dbVars, deployVars>>

ResumeApp ==
    \E key \in DOMAIN apps :
        /\ Idle
        /\ ~apps[key].is_active
        /\ apps' = [apps EXCEPT ![key].is_active = TRUE]
        /\ UNCHANGED <<users, memories, last>>
        /\ UNCHANGED <<clientVars, sessionVars, configVars, dbVars, deployVars>>

\* the returned string goes back to the caller through the transport
Respond ==
    /\ ~Idle
    /\ last' = [tool |-> "none"]
    /\ UNCHANGED <<users, apps, memories>>
    /\ UNCHANGED <<clientVars, sessionVars, configVars, dbVars, deployVars>>

Next ==
    \/ AddMemories
    \/ SearchMemory
    \/ ListMemories
    \/ DeleteAllMemories
    \/ GetMemory
    \/ UpdateMemory
    \/ DeleteMemory
    \/ GetMemoryHistory
    \/ GetEntities
    \/ BatchUpdateMemories
    \/ BatchDeleteMemories
    \/ PauseApp
    \/ ResumeApp
    \/ Respond

Spec == Init /\ [][Next]_vars

-----------------------------------------------------------------------------
(* filter_accessible_memories on its own: any store, any caller (resolved  *)
(* or not), any candidate collection.                                      *)

ShadowRows ==
    {[user_id |-> "u1", app_id |-> a, state |-> st] :
        a \in ClientNames, st \in {"active", "deleted"}}

Stores == UNION {[ids -> ShadowRows] : ids \in SUBSET Uuids}

FilterInputs ==
    {PyNone, PyStr("unexpected")}
    \cup {PyList(c) : c \in CandLists}
    \cup {PyDict("results" :> c) : c \in CandLists}

\* the user ids a caller may present: a stored one or an unknown one
FilterCallers == UserIds \cup {"u2"}

FilterInit ==
    /\ users \in SUBSET UserIds
    /\ apps = EmptyMap
    /\ memories \in IF users = {} THEN {EmptyMap} ELSE Stores
    /\ last = [tool |-> "none"]

FilterAccessibleMemories ==
    /\ Idle
    /\ \E mems \in FilterInputs, user_id \in FilterCallers, fault \in {"none", "query"} :
       \E acc \in SUBSET DOMAIN memories :
           /\ last' = [tool |-> "filter_accessible_memories", mems |-> mems,
                       user_id |-> user_id, acc |-> acc, fault |-> fault,
                       out |-> filter_accessible_memories(Open(Tables), mems,
                                                          user_id, acc, fault)]
           /\ UNCHANGED <<users, apps, memories>>
           /\ UNCHANGED <<clientVars, sessionVars, configVars, dbVars, deployVars>>

FilterNext == FilterAccessibleMemories \/ Respond

InitFilter == ClientInit /\ FilterInit /\ SessionInit /\ ConfigInit /\ TableInit /\ DiskInit

SpecFilter == InitFilter /\ [][FilterNext]_vars

-----------------------------------------------------------------------------
(* Properties of the tools *)

Range(f) == {f[i] : i \in DOMAIN f}

RecordTools == {"search_memory", "list_memories", "get_memory", "get_memory_history"}

IsPayload(out) == out.k = "return" /\ "json" \in DOMAIN out.v

\* the records in a payload: the elements of an array, or the one object
PayloadRecords(out) ==
    IF ~IsPayload(out) THEN <<>>
    ELSE IF out.v.json.t = "list" THEN out.v.json.items
    ELSE <<out.v.json>>

RecordId(rec) ==
    IF "id" \in DOMAIN rec.d THEN rec.d["id"] ELSE DictGet(rec.d, "memory_id", PyNone)

Granted(rec, acc) ==
    /\ UUID(RecordId(rec)).k = "return"
    /\ UUID(RecordId(rec)).v \in acc

\* C1: every record a record-returning tool (search_memory, list_memories,
\* get_memory, get_memory_history) hands back names a stored record that the
\* access rule accepts for the calling application.
C1_ReturnedRecordsGranted ==
    last.tool \in RecordTools =>
        \A rec \in Range(PayloadRecords(last.ret)) : Granted(rec, last.acc)

\* C2: when the backend answers and the store does not fail, search_memory
\* and list_memories return exactly the candidates that are stored and
\* granted to the calling application, in the backend's order.
C2_ExactlyGrantedCandidates ==
    (/\ last.tool \in {"search_memory", "list_memories"}
     /\ last.resp.k = "return"
     /\ last.fault = "none")
    => last.ret = Returned(PyJson(PyList(
           SelectSeq(Candidates(last.resp), LAMBDA rec : Granted(rec, last.acc)))))

FilterCandidates(mems) ==
    IF mems.t = "list" THEN mems.items
    ELSE IF IsDict(mems) /\ "results" \in DOMAIN mems.d THEN mems.d["results"]
    ELSE <<>>

\* C3: filter_accessible_memories returns only input candidates, the i-th
\* id it returns is the id of the i-th record it returns, and both outputs
\* are empty for an empty input and for a caller whose user is not stored.
C3_FilterOutputs ==
    last.tool = "filter_accessible_memories" =>
        /\ Len(last.out.ids) = Len(last.out.records)
        /\ \A i \in 1..Len(last.out.records) :
               /\ last.out.records[i] \in Range(FilterCandidates(last.mems))
               /\ UUID(RecordId(last.out.records[i])) = Returned(last.out.ids[i])
        /\ (FilterCandidates(last.mems) = <<>> \/ last.user_id \notin users)
               => last.out.ids = <<>> /\ last.out.records = <<>>

C3_Witness ==
    /\ last.tool = "filter_accessible_memories"
    /\ Len(last.out.ids) = 2
    /\ last.out.ids[1] # last.out.ids[2]
    /\ IsDict(last.mems)

Parses(x) == UUID(x).k = "return"

\* a backend answer without the candidates whose id does not parse
WithoutBadIds(resp) ==
    IF resp.k # "return" THEN resp
    ELSE IF resp.v.t = "list"
    THEN Returned(PyList(SelectSeq(resp.v.items, LAMBDA rec : Parses(RecordId(rec)))))
    ELSE IF IsDict(resp.v) /\ "results" \in DOMAIN resp.v.d
    THEN Returned(PyDict(("results" :>
             SelectSeq(resp.v.d["results"], LAMBDA rec : Parses(RecordId(rec))))
             @@ resp.v.d))
    ELSE resp

\* what the invocation recorded in last' does when started in the current store
Replayed(inv, b) ==
    /\ inv.ret = b.out
    /\ inv.logged = b.S.clog
    /\ inv.hist = b.S.chist
    /\ memories' = b.S.c.memories

\* C4: an item whose id does not parse is skipped alone: batch_delete_memories,
\* and the filter behind search_memory and list_memories, give the outcome
\* they give for the same batch without the unparsable items.
C4_Step ==
    /\ (/\ last'.tool = "batch_delete_memories"
        /\ BatchReached(<<last'.user_id, last'.client_name>>, last'.fault, last'.arg))
       => Replayed(last',
              batch_delete_memories(Tables, last'.user_id, last'.client_name,
                  JsonText(PyList(SelectSeq(last'.arg.v.items, Parses))),
                  last'.resp, last'.fault))
    /\ last'.tool = "search_memory"
       => Replayed(last',
              search_memory(Tables, last'.user_id, last'.client_name, last'.arg,
                  WithoutBadIds(last'.resp), last'.acc, last'.fault))
    /\ last'.tool = "list_memories"
       => Replayed(last',
              list_memories(Tables, last'.user_id, last'.client_name,
                  WithoutBadIds(last'.resp), last'.acc, last'.fault))

C4_BadIdSkippedAlone == [][Idle => C4_Step]_vars

\* C10: every tool invocation returns a string, whatever the inputs and
\* whichever of the backend, the store and the audit write fails.
C10_ToolReturnsString ==
    ~Idle /\ last.tool # "filter_accessible_memories" =>
        /\ last.ret.k = "return"
        /\ last.ret.v.t = "str"

C10_Witness ==
    /\ last.tool = "batch_delete_memories"
    /\ last.fault = "audit"
    /\ last.call # NoCall
    /\ last.ret = Text("Error in batch delete: database is locked")

-----------------------------------------------------------------------------
(* Preconditions of the tools *)

Tools ==
    {"add_memories", "search_memory", "list_memories", "delete_all_memories",
     "get_memory", "update_memory", "delete_memory", "get_memory_history",
     "get_entities", "batch_update_memories", "batch_delete_memories"}

IdentityError == Text("Error: user_id and client_name are required")

\* C11: a tool called without a user id or without a client name returns the
\* identity-required error, makes no backend call and writes nothing: no
\* user, no application, no shadow record, no status change, no access event.
C11_Step ==
    (/\ last'.tool \in Tools
     /\ (last'.user_id = "" \/ last'.client_name = ""))
    => /\ last'.ret = IdentityError
       /\ last'.call = NoCall
       /\ last'.logged = <<>>
       /\ last'.hist = <<>>
       /\ users' = users
       /\ apps' = apps
       /\ memories' = memories

C11_NoIdentityNoOperation == [][Idle => C11_Step]_vars

C11_Witness ==
    /\ last.tool = "batch_delete_memories"
    /\ last.user_id = ""
    /\ last.ret = IdentityError
    /\ DOMAIN memories # {}

MutatingTools ==
    {"add_memories", "update_memory", "delete_memory", "delete_all_memories",
     "batch_update_memories", "batch_delete_memories"}

\* the returned string is an error message
IsErrorText(out) ==
    /\ out.k = "return"
    /\ "s" \in DOMAIN out.v
    /\ Prefix(out.v.s, 5) = "Error"

\* the application of the invocation in `last` exists and is paused; no tool
\* changes is_active, so it was paused when the call started
CallerPaused ==
    /\ <<last.user_id, last.client_name>> \in DOMAIN apps
    /\ ~apps[<<last.user_id, last.client_name>>].is_active

\* C12: a mutating tool called by a paused application returns an error and
\* makes no backend call.
C12_PausedAppRejected ==
    (last.tool \in MutatingTools /\ CallerPaused)
    => last.call = NoCall /\ IsErrorText(last.ret)

JsonTools ==
    {"add_memories", "search_memory", "update_memory", "batch_update_memories",
     "batch_delete_memories"}

\* the JSON-encoded argument of the invocation
JsonArg(inv) == IF inv.tool = "update_memory" THEN inv.arg.metadata ELSE inv.arg

IsParseError(out) ==
    /\ out.k = "return"
    /\ "s" \in DOMAIN out.v
    /\ Prefix(out.v.s, 13) = "Error parsing"

\* C13: a tool given malformed JSON (by an identified caller whose
\* application is not paused, the client and the store working) returns a
\* parse-error message and makes no backend call.
C13_MalformedJsonRejected ==
    (/\ last.tool \in JsonTools
     /\ last.user_id # "" /\ last.client_name # ""
     /\ last.fault = "none"
     /\ ~CallerPaused
     /\ JsonArg(last) = Malformed)
    => last.call = NoCall /\ IsParseError(last.ret)

-----------------------------------------------------------------------------
(* The audit trail *)

\* the access type each mutating tool logs under
AccessTypeOf ==
    [add_memories |-> "add", update_memory |-> "update", delete_memory |-> "delete",
     delete_all_memories |-> "delete_all", batch_update_memories |-> "batch_update",
     batch_delete_memories |-> "batch_delete"]

\* the ids a mutating invocation addresses
AddressedIds(inv) ==
    CASE inv.tool \in {"update_memory"} -> <<PyStr(inv.arg.memory_id)>>
      [] inv.tool = "batch_update_memories" ->
            IF inv.arg.json = "ok" /\ inv.arg.v.t = "list"
            THEN ItemIds(inv.arg.v.items, "memory_id") ELSE <<>>
      [] OTHER -> <<>>

\* the invocation changed a shadow record, or had the backend update a
\* record whose id parses
Touched(inv) ==
    \/ inv.hist # <<>>
    \/ /\ inv.tool \in {"update_memory", "batch_update_memories"}
       /\ IsPayload(inv.ret)
       /\ UuidsOf(AddressedIds(inv)) # {}

ReportsSuccess(out) == out.k = "return" /\ ~IsErrorText(out)

\* C14: a mutating tool call that reports success and touched a record has
\* committed at least one access event of the tool's access type.
C14_TouchedMeansAudited ==
    (/\ last.tool \in MutatingTools
     /\ ReportsSuccess(last.ret)
     /\ Touched(last))
    => \E i \in 1..Len(last.logged) :
           last.logged[i].access_type = AccessTypeOf[last.tool]

-----------------------------------------------------------------------------
(* log_memory_access on its own: a session whose access log already holds  *)
(* events, any id collection, the write succeeding or failing.             *)

AccessTypes == {"search", "delete"}

AccessEvents ==
    {AccessEvent(u, a, ty) : u \in Uuids, a \in ClientNames, ty \in AccessTypes}

LogMemoryAccess ==
    /\ Idle
    /\ \E stored \in SeqsUpTo(AccessEvents, 1), memory_ids \in SeqsUpTo(Uuids, MaxCand),
          app_id \in ClientNames, access_type \in AccessTypes,
          fault \in {"none", "audit"} :
           LET S == [Open(Tables) EXCEPT !.clog = stored]
               r == log_memory_access(S, memory_ids, app_id, access_type, fault)
           IN  /\ last' = [tool |-> "log_memory_access", stored |-> stored,
                           memory_ids |-> memory_ids, app_id |-> app_id,
                           access_type |-> access_type, fault |-> fault,
                           raised |-> r.k = "raise",
                           after |-> IF r.k = "raise" THEN S.clog ELSE r.S.clog,
                           pending |-> IF r.k = "raise" THEN <<>> ELSE r.S.plog]
               /\ UNCHANGED <<users, apps, memories>>
               /\ UNCHANGED <<clientVars, sessionVars, configVars, dbVars, deployVars>>

AuditNext == LogMemoryAccess \/ Respond

SpecAudit == Init /\ [][AuditNext]_vars

\* C15: log_memory_access appends one access event per id, in order, after
\* the events already stored, and commits them together: afterwards the log
\* is the old log followed by all events of the call, or it is the old log.
C15_OneEventPerIdAtomic ==
    last.tool = "log_memory_access" =>
        /\ SubSeq(last.after, 1, Len(last.stored)) = last.stored
        /\ last.pending = <<>>
        /\ \/ last.after = last.stored /\ (last.raised \/ last.memory_ids = <<>>)
           \/ /\ ~last.raised
              /\ Len(last.after) = Len(last.stored) + Len(last.memory_ids)
              /\ \A i \in 1..Len(last.memory_ids) :
                     last.after[Len(last.stored) + i] =
                         [memory_id |-> last.memory_ids[i], app_id |-> last.app_id,
                          access_type |-> last.access_type]

C15_Witness ==
    /\ last.tool = "log_memory_access"
    /\ Len(last.stored) = 1
    /\ Len(last.memory_ids) = 2
    /\ Len(last.after) = 3

AuditedMutators ==
    {"update_memory", "delete_memory", "delete_all_memories",
     "batch_update_memories", "batch_delete_memories"}

\* the invocation inv of an audited mutating tool, started in the store D
\* with the fault f
Rerun(inv, D, f) ==
    CASE inv.tool = "update_memory" ->
             update_memory(D, inv.user_id, inv.client_name, inv.arg.memory_id,
                           inv.resp, f)
      [] inv.tool = "delete_memory" ->
             delete_memory(D, inv.user_id, inv.client_name, inv.arg, inv.resp, f)
      [] inv.tool = "delete_all_memories" ->
             delete_all_memories(D, inv.user_id, inv.client_name, inv.resp, inv.acc, f)
      [] inv.tool = "batch_update_memories" ->
             batch_update_memories(D, inv.user_id, inv.client_name, inv.arg, inv.resp, f)
      [] inv.tool = "batch_delete_memories" ->
             batch_delete_memories(D, inv.user_id, inv.client_name, inv.arg, inv.resp, f)

\* C16: when the audit write of a mutating tool fails (the same call would
\* have committed access events had the write succeeded), the tool returns
\* an error string.
C16_Step ==
    (/\ last'.tool \in AuditedMutators
     /\ last'.fault = "audit"
     /\ Rerun(last', Tables, "none").S.clog # <<>>)
    => IsErrorText(last'.ret)

C16_AuditFailureIsError == [][Idle => C16_Step]_vars

C16_Witness ==
    /\ last.tool = "update_memory"
    /\ last.fault = "audit"
    /\ last.call # NoCall
    /\ last.ret = Text("Error updating memory: database is locked")

\* C17: when the audit write of search_memory or list_memories fails, the
\* caller still receives the records the call returns when the write succeeds.
C17_Step ==
    /\ (last'.tool = "search_memory" /\ last'.fault = "audit")
       => last'.ret = search_memory(Tables, last'.user_id, last'.client_name,
                                    last'.arg, last'.resp, last'.acc, "none").out
    /\ (last'.tool = "list_memories" /\ last'.fault = "audit")
       => last'.ret = list_memories(Tables, last'.user_id, last'.client_name,
                                    last'.resp, last'.acc, "none").out

C17_AuditFailureKeepsListing == [][Idle => C17_Step]_vars

-----------------------------------------------------------------------------
(* The shadow store and the engine *)

\* the engine carried out the operation the invocation asked for
EnginePerformed(inv) ==
    /\ inv.call # NoCall
    /\ IF "performed" \in DOMAIN inv.call THEN inv.call.performed
       ELSE inv.resp.k = "return"

\* C18: a tool call creates a shadow record only under an id the engine
\* returned in that call, and changes a shadow record only if the engine
\* carried out the call's operation.
C18_Step ==
    last'.tool \in Tools =>
        /\ \A u \in DOMAIN memories' \ DOMAIN memories :
               /\ EnginePerformed(last')
               /\ u \in UuidsOf(ItemIds(Candidates(last'.resp), "id"))
        /\ \A u \in DOMAIN memories \cap DOMAIN memories' :
               memories'[u] # memories[u] => EnginePerformed(last')

C18_ShadowFollowsEngine == [][Idle => C18_Step]_vars

-----------------------------------------------------------------------------
(* delete_all_memories with the engine's records in view: any shadow store, *)
(* an engine holding at least the active shadow records, any grants.       *)

\* memory_client.delete_all(user_id=uid) carried out by the engine: the call
\* names the user and nothing else, so every record of the user goes
engine_delete_all(records, out) == IF out.k = "return" THEN {} ELSE records

\* the engines consistent with the shadow store: every active shadow record
\* is a record of the engine
Engines == {e \in SUBSET Uuids :
                \A u \in DOMAIN memories : memories[u].state = "active" => u \in e}

DeleteAllWithEngine ==
    /\ Idle
    /\ \E caller \in {c \in Callers : Valid(c)}, records \in Engines, out \in WriteResponses :
       \E resp \in DeleteAllResponses(out) :
       \E acc \in Grants(Uuids) :
           Effect(delete_all_memories(Tables, caller[1], caller[2], resp, acc, "none"),
                  [engine |-> records, engine_after |-> engine_delete_all(records, out)]
                  @@ Invocation("delete_all_memories", caller[1], caller[2], NoOutcome,
                                [op |-> "delete_all", performed |-> out.k = "return"],
                                resp, acc, "none",
                                delete_all_memories(Tables, caller[1], caller[2],
                                                    resp, acc, "none")))

DeleteAllNext == DeleteAllWithEngine \/ Respond

SpecDeleteAll == InitFilter /\ [][DeleteAllNext]_vars

DeletedCount(n) == Text("Successfully deleted " \o ToString(n) \o " accessible memories")

\* C19: when delete_all_memories confirms, the records removed from the
\* engine are records accessible to the caller, their number is the count in
\* the confirmation, and with no accessible record nothing is removed and no
\* access event is written.
C19_DeletesAccessibleOnly ==
    (/\ last.tool = "delete_all_memories"
     /\ "engine" \in DOMAIN last
     /\ ReportsSuccess(last.ret))
    => /\ (last.engine \ last.engine_after) \subseteq last.acc
       /\ last.ret = DeletedCount(Cardinality(last.engine \ last.engine_after))
       /\ last.acc = {} => last.engine_after = last.engine /\ last.logged = <<>>

-----------------------------------------------------------------------------
(* handle_sse: the streaming sessions and the registry of connection ids.  *)
(* A handler gives up control only at its awaits: inside connect_sse's     *)
(* entry, inside the server run, and inside connect_sse's exit.  Each      *)
(* action is the code between two awaits.  A handler runs in an execution  *)
(* unit (an asyncio task) with its own context; a unit whose handler has   *)
(* exited may be given a later handler, which then starts in the context   *)
(* the earlier one left behind.                                            *)

MaxSessions == 3

\* the path parameters of the requests
SsePaths == {<<"a1", "u1">>, <<"a2", "u2">>}

\* a context variable that was never set (contextvars.Token.MISSING)
MISSING == "Token.MISSING"

\* no tool body is executing on the session
NoRequest == [tool |-> "none"]

\* an id made of the path parameters alone
ConnectionIdOfPath(client_name, uid, n) == client_name \o ":" \o uid

\* f"{client_name}:{uid}:{connection_counter}"
ConnectionId(client_name, uid, n) == client_name \o ":" \o uid \o ":" \o ToString(n)

\* what ends the wait inside sse.connect_sse's entry
ConnectOutcomes == {"established", "Exception", "CancelledError"}

\* what ends the wait inside mcp._mcp_server.run
RunOutcomes == {"completed", "RuntimeError: Received request before initialization was complete",
                "RuntimeError", "Exception", "CancelledError"}

\* what ends the wait inside sse.connect_sse's exit
CloseOutcomes == {"closed", "Exception", "CancelledError"}

\* the except clauses around the server run (457-466): every Exception is
\* logged and dropped, a CancelledError is not an Exception and travels on
AfterRun(outcome) == IF outcome = "CancelledError" THEN "CancelledError" ELSE "none"

\* the except clause around the connection (468-471), applied to what is
\* travelling when the async with block is left
AfterConnect(pending) == IF pending = "Exception" THEN "none" ELSE pending

\* cleanup that would sit after the try statement instead of in a finally
\* clause: it is skipped when an exception leaves the handler
cleanup_after_try(conns, connection_id, pending) ==
    IF pending = "none" THEN conns \ {connection_id} ELSE conns

\* finally (472-474): active_connections.discard(connection_id), whatever
\* is travelling
cleanup(conns, connection_id, pending) == conns \ {connection_id}

\* a module global in place of the context variable: one value for every
\* execution unit
global_set(S, i, name, value) ==
    [j \in DOMAIN S |-> [S[j] EXCEPT ![name] = value]]

\* ContextVar.set / ContextVar.reset in the context of session i's unit: the
\* other units' contexts keep what they hold
ctx_set(S, i, name, value) == [S EXCEPT ![i][name] = value]

\* a tool body with an await in it would let the other tasks run meanwhile
loop_never_blocked == TRUE

\* the tool bodies contain no await: while one executes, the event loop runs
\* nothing else
LoopFree == \A j \in DOMAIN sessions : sessions[j].inflight = NoRequest

\* the units a new handler may be given: a fresh one (numbered by the
\* handler), or one whose handlers have all exited
UnitsFor(n) ==
    {n} \cup {sessions[j].unit : j \in {k \in DOMAIN sessions :
                  \A m \in DOMAIN sessions :
                      sessions[m].unit = sessions[k].unit => sessions[m].pc = "exited"}}

\* the context of a unit as its latest handler left it
ContextOf(u, name) ==
    LET on == {j \in DOMAIN sessions : sessions[j].unit = u}
    IN  IF on = {} THEN MISSING
        ELSE sessions[CHOOSE j \in on : \A m \in on : m <= j][name]

\* lines 472-478 for session i, with `pending` travelling and `path` the way
\* the handler came here
Finally(i, pending, path) ==
    /\ active_connections' = cleanup(active_connections, sessions[i].connection_id,
                                     AfterConnect(pending))
    /\ sessions' = ctx_set(ctx_set(
                       [sessions EXCEPT ![i].pc = "exited",
                                        ![i].path = path,
                                        ![i].raised = AfterConnect(pending)],
                       i, "user_id_var", sessions[i].user_token),
                       i, "client_name_var", sessions[i].client_token)
    /\ UNCHANGED connection_counter

\* lines 421-436, up to the wait inside connect_sse
HandleSse ==
    /\ LoopFree
    /\ connection_counter < MaxSessions
    /\ \E request \in SsePaths :
       \E unit \in UnitsFor(connection_counter + 1) :
         LET client_name == request[1]
             uid == request[2]
             n == connection_counter + 1
             connection_id == ConnectionId(client_name, uid, n)
             entered == Append(sessions,
                   [pc |-> "connecting", client_name |-> client_name, uid |-> uid,
                    connection_id |-> connection_id, unit |-> unit,
                    user_token |-> ContextOf(unit, "user_id_var"),
                    client_token |-> ContextOf(unit, "client_name_var"),
                    user_id_var |-> ContextOf(unit, "user_id_var"),
                    client_name_var |-> ContextOf(unit, "client_name_var"),
                    inflight |-> NoRequest,
                    path |-> "none", raised |-> "none"])
         IN /\ connection_counter' = n
            /\ active_connections' = active_connections \cup {connection_id}
            /\ sessions' = ctx_set(ctx_set(entered, n, "user_id_var", uid),
                                   n, "client_name_var", client_name)
    /\ UNCHANGED <<clientVars, gatewayVars, configVars, dbVars, deployVars>>

\* lines 438-443: the streams are established, or entering fails
ConnectSse ==
    /\ LoopFree
    /\ \E i \in DOMAIN sessions, outcome \in ConnectOutcomes :
         /\ sessions[i].pc = "connecting"
         /\ IF outcome = "established"
            THEN /\ sessions' = [sessions EXCEPT ![i].pc = "running"]
                 /\ UNCHANGED <<active_connections, connection_counter>>
            ELSE Finally(i, outcome, IF outcome = "Exception" THEN "transport error"
                                     ELSE "cancelled")
    /\ UNCHANGED <<clientVars, gatewayVars, configVars, dbVars, deployVars>>

\* lines 445-466: the server run ends
RunServer ==
    /\ LoopFree
    /\ \E i \in DOMAIN sessions, outcome \in RunOutcomes :
         /\ sessions[i].pc = "running"
         /\ sessions' = [sessions EXCEPT
                            ![i].pc = "closing",
                            ![i].raised = AfterRun(outcome),
                            ![i].path = CASE outcome = "completed" -> "normal"
                                          [] outcome = "CancelledError" -> "cancelled"
                                          [] OTHER -> "server error"]
         /\ UNCHANGED <<active_connections, connection_counter>>
    /\ UNCHANGED <<clientVars, gatewayVars, configVars, dbVars, deployVars>>

\* the exit of the async with block, then lines 468-478
CloseSse ==
    /\ LoopFree
    /\ \E i \in DOMAIN sessions, outcome \in CloseOutcomes :
         /\ sessions[i].pc = "closing"
         /\ Finally(i,
                    IF outcome = "closed" THEN sessions[i].raised ELSE outcome,
                    CASE outcome = "Exception" -> "transport error"
                      [] outcome = "CancelledError" -> "cancelled"
                      [] OTHER -> sessions[i].path)
    /\ UNCHANGED <<clientVars, gatewayVars, configVars, dbVars, deployVars>>

SessionNext == HandleSse \/ ConnectSse \/ RunServer \/ CloseSse

SpecSessions == Init /\ [][SessionNext]_vars

\* the sessions whose handler has been entered and has not exited
Running == {i \in DOMAIN sessions : sessions[i].pc # "exited"}

\* C20: a connection id is in the registry only while its handler runs:
\* the id of a handler that has exited, on whichever path, is not in
\* active_connections, and every id in active_connections belongs to a
\* handler that is still running.
C20_RegistryHoldsRunningOnly ==
    /\ \A i \in DOMAIN sessions :
           sessions[i].pc = "exited" => sessions[i].connection_id \notin active_connections
    /\ active_connections \subseteq {sessions[i].connection_id : i \in Running}

\* every exit path has been taken by some handler, one of them left with the
\* CancelledError still travelling, and a third handler is still registered
C20_Witness ==
    /\ \E i \in DOMAIN sessions :
           /\ sessions[i].pc = "exited"
           /\ sessions[i].path = "cancelled"
           /\ sessions[i].raised = "CancelledError"
    /\ \E i \in DOMAIN sessions :
           /\ sessions[i].pc = "exited"
           /\ sessions[i].path \in {"server error", "transport error"}
    /\ \E i \in Running : sessions[i].connection_id \in active_connections

\* C40: the connection ids of any two handle_sse invocations differ, also
\* for the same client name and user id; every running handler is in the
\* registry, so no other handler's cleanup has removed it, and the registry
\* has as many entries as there are running handlers.
C40_SessionIdsDistinct ==
    /\ \A i, j \in DOMAIN sessions :
           i # j => sessions[i].connection_id # sessions[j].connection_id
    /\ \A i \in Running : sessions[i].connection_id \in active_connections
    /\ Cardinality(active_connections) = Cardinality(Running)

\* three handlers for the same client name and user id: one has exited and
\* cleaned up, two are running at the same time and registered
C40_Witness ==
    /\ Len(sessions) = 3
    /\ \A i \in DOMAIN sessions :
           sessions[i].client_name = "a1" /\ sessions[i].uid = "u1"
    /\ sessions[1].pc = "exited"
    /\ sessions[2].pc = "running"
    /\ sessions[3].pc = "running"
    /\ Cardinality(active_connections) = 2

-----------------------------------------------------------------------------
(* Sessions that serve tool calls.  The server run dispatches a call in a   *)
(* task started from the handler's task, so the tool reads the handler's   *)
(* context.  A tool body runs from its first line to its return without an *)
(* await; the transport may drop meanwhile, which the handler learns only  *)
(* when the event loop runs it again.                                       *)

MaxOpen == 2

\* the store the sessions work on: each user has one active record, created
\* through their own application
ServingStore ==
    /\ users = {"u1", "u2"}
    /\ apps = (<<"u1", "a1">> :> [is_active |-> TRUE]) @@ (<<"u2", "a2">> :> [is_active |-> TRUE])
    /\ memories = ("U1" :> [user_id |-> "u1", app_id |-> "a1", state |-> "active"])
                  @@ ("U2" :> [user_id |-> "u2", app_id |-> "a2", state |-> "active"])
    /\ last = [tool |-> "none"]

InitServing == ClientInit /\ ServingStore /\ SessionInit /\ ConfigInit /\ TableInit /\ DiskInit

\* the id collections the clients send to batch_delete_memories
ServedIdArgs ==
    {JsonText(PyList(<<PyStr("id-1")>>)), JsonText(PyList(<<PyStr("id-2")>>)),
     JsonText(PyList(<<PyStr("id-1"), PyStr("id-2")>>))}

\* the engine deletes, or fails
ServedResponses == {Message("ok"), Raised("Exception", "Connection refused")}

\* mcp_server_optimized.py:833-834 and the dispatch of the call: the body
\* of batch_delete_memories starts on session i
BeginTool ==
    /\ LoopFree
    /\ Idle
    /\ \E i \in DOMAIN sessions, memory_ids_json \in ServedIdArgs, resp \in ServedResponses :
         /\ sessions[i].pc = "running"
         /\ sessions' = [sessions EXCEPT
                ![i].inflight = [tool |-> "batch_delete_memories",
                                 user_id |-> sessions[i].user_id_var,
                                 client_name |-> sessions[i].client_name_var,
                                 arg |-> memory_ids_json, resp |-> resp,
                                 dropped |-> FALSE]]
    /\ UNCHANGED <<active_connections, connection_counter>>
    /\ UNCHANGED <<clientVars, gatewayVars, configVars, dbVars, deployVars>>

\* the client goes away while the body executes
Disconnect ==
    /\ \E i \in DOMAIN sessions :
         /\ sessions[i].inflight # NoRequest
         /\ ~sessions[i].inflight.dropped
         /\ sessions' = [sessions EXCEPT ![i].inflight.dropped = TRUE]
    /\ UNCHANGED <<active_connections, connection_counter>>
    /\ UNCHANGED <<clientVars, gatewayVars, configVars, dbVars, deployVars>>

\* mcp_server_optimized.py:836-904: the body runs to its return
EndTool ==
    /\ \E i \in DOMAIN sessions :
         /\ sessions[i].inflight # NoRequest
         /\ LET r == sessions[i].inflight
                b == batch_delete_memories(Tables, r.user_id, r.client_name, r.arg,
                                           r.resp, "none")
            IN  /\ users' = b.S.c.users
                /\ apps' = b.S.c.apps
                /\ memories' = b.S.c.memories
                /\ last' = [session |-> i, dropped |-> r.dropped] @@
                           Invocation("batch_delete_memories", r.user_id, r.client_name,
                                      r.arg, CallOf("batch_delete", r.resp), r.resp,
                                      {}, "none", b)
         /\ sessions' = [sessions EXCEPT ![i].inflight = NoRequest]
    /\ UNCHANGED <<active_connections, connection_counter>>
    /\ UNCHANGED <<clientVars, configVars, dbVars, deployVars>>

\* a new session while fewer than MaxOpen have been opened
OpenSession == connection_counter < MaxOpen /\ HandleSse

\* the handler steps, taken once the served call has been handed back
Connect == Idle /\ ConnectSse

Run == Idle /\ RunServer

Close == Idle /\ CloseSse

ServingNext ==
    OpenSession \/ Connect \/ Run \/ Close \/ BeginTool \/ Disconnect \/ EndTool \/ Respond

SpecServing == InitServing /\ [][ServingNext]_vars

\* the identity session i was established with (428-429)
Bound(i) == <<sessions[i].uid, sessions[i].client_name>>

\* C21: a tool call served on a session reads the user id and the client
\* name that session bound, whatever other sessions are open; when a handler
\* has exited both context variables hold what they held before it bound
\* them, and no handler that is given the unit later finds an identity there.
C21_OwnIdentityOnly ==
    /\ \A i \in DOMAIN sessions :
           sessions[i].inflight # NoRequest =>
               <<sessions[i].inflight.user_id, sessions[i].inflight.client_name>> = Bound(i)
    /\ ("session" \in DOMAIN last => <<last.user_id, last.client_name>> = Bound(last.session))
    /\ \A i \in DOMAIN sessions :
           sessions[i].pc = "exited" =>
               /\ sessions[i].user_id_var = sessions[i].user_token
               /\ sessions[i].client_name_var = sessions[i].client_token
    /\ \A i \in DOMAIN sessions :
           sessions[i].user_token = MISSING /\ sessions[i].client_token = MISSING

\* two sessions with different identities are open, and the call just
\* served on the first one ran after the second one had bound its identity
C21_Witness ==
    /\ Len(sessions) = 2
    /\ sessions[1].pc = "running" /\ sessions[2].pc = "running"
    /\ Bound(1) # Bound(2)
    /\ "session" \in DOMAIN last
    /\ last.session = 1
    /\ last.user_id = sessions[1].uid

\* the stored records a request names
Named(r) == UuidsOf(r.arg.v.items) \cap DOMAIN memories

\* the call in flight on session i returns in this step, its deletions and
\* its access events committed
Completes(i) ==
    /\ "session" \in DOMAIN last' /\ last'.session = i
    /\ last'.arg = sessions[i].inflight.arg
    /\ sessions[i].inflight.resp.k = "return" =>
           /\ last'.ret = Text("Successfully batch deleted " \o
                               ToString(Cardinality(Named(sessions[i].inflight))) \o
                               " memories")
           /\ \A u \in Named(sessions[i].inflight) :
                  /\ memories'[u].state = "deleted"
                  /\ \E k \in DOMAIN last'.logged :
                         last'.logged[k] = AccessEvent(u, sessions[i].client_name,
                                                       "batch_delete")

\* C22: a tool call in flight on a session runs to its return with its
\* shadow updates and access events committed, also when the transport has
\* dropped meanwhile; a call starts only on a session whose server run has
\* not ended; the session's id leaves the registry once, when its handler
\* exits, and not while a call is in flight on it.
C22_Step ==
    \A i \in DOMAIN sessions :
        LET id == sessions[i].connection_id
        IN  /\ sessions[i].inflight # NoRequest =>
                   /\ sessions'[i].pc = "running"
                   /\ id \in active_connections'
                   /\ sessions'[i].inflight = NoRequest => Completes(i)
            /\ (sessions[i].inflight = NoRequest /\ sessions'[i].inflight # NoRequest)
                   => sessions[i].pc = "running"
            /\ (id \in active_connections /\ id \notin active_connections')
                   => sessions[i].inflight = NoRequest /\ sessions'[i].pc = "exited"
            /\ id \notin active_connections => id \notin active_connections'

-----------------------------------------------------------------------------
(* The shared backend client: get_memory_client and reset_memory_client    *)
(* (app/utils/memory.py), the configuration cache (app/utils/              *)
(* config_manager.py) and the configuration endpoints (app/routers/        *)
(* config.py).  None of these functions awaits, so each call is one step.  *)

MaxBuilds == 3

\* Python None for the configuration row, the cache, the client and the hash
Absent == [t |-> "none"]

\* the mem0 configurations the endpoints store, named by their llm provider
Configs == {[t |-> "config", llm |-> p] : p \in {"openai", "ollama"}}

\* get_built_in_default_config (config_manager.py:29-83)
DefaultConfig == [t |-> "config", llm |-> "openai"]

\* memory.py:323-326: md5 of the configuration's canonical JSON text
get_config_hash(config) == [t |-> "str", s |-> "md5(" \o config.llm \o ")"]

\* a reset that only clears the configuration cache
reset_cache_only(m) == [m EXCEPT !.cache = Absent]

\* memory.py:408-420
reset_memory_client(m) == [client |-> Absent, hash |-> Absent, cache |-> Absent]

\* the module state the two functions work on
Module == [client |-> _memory_client, hash |-> _config_hash, cache |-> _config_cache]

SetModule(m) ==
    /\ _memory_client' = m.client
    /\ _config_hash' = m.hash
    /\ _config_cache' = m.cache

\* the client object the n-th construction yields
Client(n, config) == [t |-> "client", id |-> n, config |-> config]

\* the client that is current goes out of use
Retire == retired' = retired \cup (IF _memory_client = Absent THEN {} ELSE {_memory_client})

\* config.py:142-180 and the other update endpoints, config.py:182-199:
\* save_config_to_db (config_manager.py:159-182, which clears the cache),
\* then reset_memory_client
UpdateConfiguration ==
    /\ \E config \in Configs :
         /\ stored_config' = config
         /\ SetModule(reset_memory_client([Module EXCEPT !.cache = Absent]))
         /\ Retire
         /\ last' = [tool |-> "update_configuration", config |-> config]
    /\ UNCHANGED <<built, environ>>
    /\ UNCHANGED <<users, apps, memories>>
    /\ UNCHANGED <<clientVars, sessionVars, dbVars, deployVars>>

\* config_manager.py:251-257: the configuration is saved and nothing is reset
SaveConfig ==
    /\ \E config \in Configs :
         /\ stored_config' = config
         /\ _config_cache' = Absent
         /\ last' = [tool |-> "save_config", config |-> config]
    /\ UNCHANGED <<_memory_client, _config_hash, built, retired, environ>>
    /\ UNCHANGED <<users, apps, memories>>
    /\ UNCHANGED <<clientVars, sessionVars, dbVars, deployVars>>

\* memory.py:518-689 with config_manager.py:141-204; construction is
\* Memory.from_config succeeding or raising
GetMemoryClient ==
    /\ \E construction \in {"ok", "raises"} :
         LET row == IF stored_config = Absent THEN DefaultConfig ELSE stored_config
             config == IF _config_cache # Absent THEN _config_cache ELSE row
             current_config_hash == get_config_hash(config)
             rebuild == _memory_client = Absent \/ _config_hash # current_config_hash
             n == built + 1
             m == IF ~rebuild THEN [Module EXCEPT !.cache = config]
                  ELSE IF construction = "ok"
                  THEN [client |-> Client(n, config), hash |-> current_config_hash,
                        cache |-> config]
                  ELSE [client |-> Absent, hash |-> Absent, cache |-> config]
         IN  /\ rebuild /\ construction = "ok" => n <= MaxBuilds
             /\ ~rebuild => construction = "ok"
             /\ stored_config' = IF _config_cache # Absent THEN stored_config ELSE row
             /\ SetModule(m)
             /\ built' = IF rebuild /\ construction = "ok" THEN n ELSE built
             /\ last' = [tool |-> "get_memory_client", ret |-> m.client,
                         construction |-> IF rebuild THEN construction ELSE "none"]
    /\ UNCHANGED <<retired, environ>>
    /\ UNCHANGED <<users, apps, memories>>
    /\ UNCHANGED <<clientVars, sessionVars, dbVars, deployVars>>

ConfigNext == UpdateConfiguration \/ SaveConfig \/ GetMemoryClient

SpecConfig == Init /\ [][ConfigNext]_vars

-----------------------------------------------------------------------------
(* LLMResponseInterceptor.fix_llm_response (app/utils/memory.py:53-112),   *)
(* computed on the characters of the response text.  json.loads is a scan  *)
(* of the text by the JSON grammar: At functions take a position and give  *)
(* the position after what they read, or 0 when the text is malformed.     *)
(* The backquote cannot be written in a string here: the apostrophe stands *)
(* for it.                                                                 *)

MaxPieces == 3

Char(s, i) == IF i >= 1 /\ i <= Len(s) THEN SubSeq(s, i, i) ELSE ""

\* s.startswith(p), s.endswith(p)
StartsWith(s, p) == Len(s) >= Len(p) /\ SubSeq(s, 1, Len(p)) = p

EndsWith(s, p) == Len(s) >= Len(p) /\ SubSeq(s, Len(s) - Len(p) + 1, Len(s)) = p

\* s[n:], s[:-n]
DropFirst(s, n) == SubSeq(s, n + 1, Len(s))

DropLast(s, n) == SubSeq(s, 1, Len(s) - n)

Digits == {"0", "1", "2", "3", "4", "5", "6", "7", "8", "9"}

JsonSpace == {" ", "\t", "\n", "\r"}

\* what may follow a backslash inside a JSON string (\uXXXX apart)
Escapable == {"\"", "\\", "/", "b", "f", "n", "r", "t"}

RECURSIVE SpaceAt(_, _)
SpaceAt(s, i) == IF Char(s, i) \in JsonSpace THEN SpaceAt(s, i + 1) ELSE i

\* the characters of a string after its opening quote; control characters
\* are not allowed unescaped
RECURSIVE StringAt(_, _)
StringAt(s, i) ==
    LET c == Char(s, i)
    IN  IF c = "" \/ c \in {"\n", "\t", "\r"} THEN 0
        ELSE IF c = "\"" THEN i + 1
        ELSE IF c = "\\"
        THEN IF Char(s, i + 1) \in Escapable THEN StringAt(s, i + 2) ELSE 0
        ELSE StringAt(s, i + 1)

RECURSIVE DigitsAt(_, _)
DigitsAt(s, i) == IF Char(s, i) \in Digits THEN DigitsAt(s, i + 1) ELSE i

\* an integer: no leading zero
NumberAt(s, i) ==
    IF Char(s, i) = "0" THEN (IF Char(s, i + 1) \in Digits THEN 0 ELSE i + 1)
    ELSE DigitsAt(s, i)

LiteralAt(s, i, w) == IF SubSeq(s, i, Min(Len(s), i + Len(w) - 1)) = w THEN i + Len(w) ELSE 0

RECURSIVE ValueAt(_, _)
RECURSIVE ElementsAt(_, _)
RECURSIVE MembersAt(_, _)

\* the elements of an array after its opening bracket, the first one at i
ElementsAt(s, i) ==
    LET j == ValueAt(s, i)
        k == SpaceAt(s, j)
    IN  IF j = 0 THEN 0
        ELSE IF Char(s, k) = "," THEN ElementsAt(s, SpaceAt(s, k + 1))
        ELSE IF Char(s, k) = "]" THEN k + 1
        ELSE 0

\* the members of an object after its opening brace, the first key at i
MembersAt(s, i) ==
    IF Char(s, i) # "\"" THEN 0
    ELSE LET j == StringAt(s, i + 1)
             k == SpaceAt(s, j)
             v == ValueAt(s, SpaceAt(s, k + 1))
             m == SpaceAt(s, v)
         IN  IF j = 0 \/ Char(s, k) # ":" \/ v = 0 THEN 0
             ELSE IF Char(s, m) = "," THEN MembersAt(s, SpaceAt(s, m + 1))
             ELSE IF Char(s, m) = "}" THEN m + 1
             ELSE 0

ValueAt(s, i) ==
    LET c == Char(s, i)
        j == SpaceAt(s, i + 1)
    IN  CASE c = "{" -> IF Char(s, j) = "}" THEN j + 1 ELSE MembersAt(s, j)
          [] c = "[" -> IF Char(s, j) = "]" THEN j + 1 ELSE ElementsAt(s, j)
          [] c = "\"" -> StringAt(s, i + 1)
          [] c \in Digits -> NumberAt(s, i)
          [] c = "t" -> LiteralAt(s, i, "true")
          [] c = "f" -> LiteralAt(s, i, "false")
          [] c = "n" -> LiteralAt(s, i, "null")
          [] OTHER -> 0

\* json.loads(s) succeeds: one value, with nothing but space around it
JsonLoads(s) ==
    LET j == ValueAt(s, SpaceAt(s, 1))
    IN  j # 0 /\ SpaceAt(s, j) = Len(s) + 1

\* s.replace('"', '\\"')
RECURSIVE EscapeQuotes(_)
EscapeQuotes(s) ==
    IF Len(s) = 0 THEN ""
    ELSE (IF Char(s, 1) = "\"" THEN "\\\"" ELSE Char(s, 1)) \o EscapeQuotes(DropFirst(s, 1))

\* the markdown code block markers
Fence == "'''"

FenceJson == Fence \o "json"

EmptyFacts == "{\"facts\": []}"

\* memory.py:73-79 with the markers removed only when they stand at both
\* ends, and one layer only
unfence_both_ends(t) ==
    IF StartsWith(t, FenceJson) /\ EndsWith(DropFirst(t, 7), Fence)
    THEN DropLast(DropFirst(t, 7), 3)
    ELSE IF StartsWith(t, Fence) /\ EndsWith(DropFirst(t, 3), Fence)
    THEN DropLast(DropFirst(t, 3), 3)
    ELSE t

\* memory.py:73-79: the three tests follow one another
Unfence(t) ==
    LET a == IF StartsWith(t, FenceJson) THEN DropFirst(t, 7) ELSE t
        b == IF StartsWith(a, Fence) THEN DropFirst(a, 3) ELSE a
    IN  IF EndsWith(b, Fence) THEN DropLast(b, 3) ELSE b

\* memory.py:95-103: the text that is parsed at the second attempt
Wrap(t) ==
    IF StartsWith(t, "{") THEN t
    ELSE IF StartsWith(t, "[") THEN "{\"facts\": " \o t \o "}"
    ELSE "{\"facts\": [\"" \o EscapeQuotes(t) \o "\"]}"

\* memory.py:93-112 alone: the text is wrapped without being parsed first
wrap_unparsed(t) == IF JsonLoads(Wrap(t)) THEN Wrap(t) ELSE EmptyFacts

\* memory.py:88-112
ParseOrWrap(t) ==
    IF JsonLoads(t) THEN t
    ELSE IF JsonLoads(Wrap(t)) THEN Wrap(t) ELSE EmptyFacts

\* memory.py:53-112
fix_llm_response(response_text) ==
    IF Strip(response_text) = "" THEN EmptyFacts
    ELSE LET t == Strip(Unfence(Strip(response_text)))
         IN  IF t = "" THEN EmptyFacts ELSE ParseOrWrap(t)

\* the pieces the response texts are made of
Pieces ==
    {FenceJson, Fence, "\n", " ", "{\"facts\": []}", "[\"a\"]", "{", "[", "\"", "\\", "a", "1", "}"}

RECURSIVE Join(_)
Join(ps) == IF ps = <<>> THEN "" ELSE Head(ps) \o Join(Tail(ps))

RawTexts == {Join(ps) : ps \in SeqsUpTo(Pieces, MaxPieces)}

RepairInit ==
    /\ users = {}
    /\ apps = EmptyMap
    /\ memories = EmptyMap
    /\ last \in {[tool |-> "none", response_text |-> x] : x \in RawTexts}

InitRepair == ClientInit /\ RepairInit /\ SessionInit /\ ConfigInit /\ TableInit /\ DiskInit

\* the response is repaired, and the repaired text once more
FixLlmResponse ==
    /\ last.tool = "none"
    /\ last' = [tool |-> "fix_llm_response", response_text |-> last.response_text,
                ret |-> fix_llm_response(last.response_text),
                again |-> fix_llm_response(fix_llm_response(last.response_text))]
    /\ UNCHANGED <<users, apps, memories>>
    /\ UNCHANGED <<clientVars, sessionVars, configVars, dbVars, deployVars>>

RepairNext == FixLlmResponse

SpecRepair == InitRepair /\ [][RepairNext]_vars

-----------------------------------------------------------------------------
(* Properties of fix_llm_response, checked under SpecRepair *)

Repaired == last.tool = "fix_llm_response"

Wrapped(x, f) == StartsWith(x, f) /\ EndsWith(DropFirst(x, Len(f)), Fence)

Inner(x, f) == DropLast(DropFirst(x, Len(f)), 3)

\* well-formed content inside one layer of markers is repaired to what the
\* content alone is repaired to
FencedSame(x, result) ==
    \A f \in {Fence, FenceJson} :
        (Wrapped(x, f) /\ JsonLoads(Inner(x, f))) => result = fix_llm_response(Inner(x, f))

\* the result is the one obtained when markers are removed only as a layer
\* standing at both ends
BothEndsOnly(x, result) ==
    LET t == Strip(unfence_both_ends(Strip(x)))
    IN  result = IF Strip(x) = "" \/ t = "" THEN EmptyFacts ELSE ParseOrWrap(t)

\* C25: content wrapped in one layer of code block markers is repaired to the
\* same result as the content alone, and markers are removed only as a
\* wrapping layer present at both ends of the text.
C25_FenceLayerBothEnds ==
    Repaired =>
        /\ FencedSame(last.response_text, last.ret)
        /\ BothEndsOnly(last.response_text, last.ret)

\* among the members of an object, the first key at i, there is a "facts" or
\* a "results" member whose value is an array
RECURSIVE HasSequenceMember(_, _)
HasSequenceMember(s, i) ==
    LET j == StringAt(s, i + 1)
        key == SubSeq(s, i + 1, j - 2)
        k == SpaceAt(s, j)
        v == SpaceAt(s, k + 1)
        m == SpaceAt(s, ValueAt(s, v))
    IN  \/ key \in {"facts", "results"} /\ Char(s, v) = "["
        \/ Char(s, m) = "," /\ HasSequenceMember(s, SpaceAt(s, m + 1))

\* s parses as an object that contains a facts (or results) sequence
FactsShaped(s) ==
    LET i == SpaceAt(s, 1)
        j == SpaceAt(s, i + 1)
    IN  JsonLoads(s) /\ Char(s, i) = "{" /\ Char(s, j) = "\"" /\ HasSequenceMember(s, j)

\* the text left after memory.py:70-80
Cleaned(x) == Strip(Unfence(Strip(x)))

\* neither the cleaned text nor its wrapped form parses
EveryAttemptFails(x) == ~JsonLoads(Cleaned(x)) /\ ~JsonLoads(Wrap(Cleaned(x)))

\* C26: for every raw text the repair returns a text that parses as an object
\* containing a facts (or results) sequence; it returns the canonical empty
\* result for an empty or white-space-only text and whenever every repair
\* attempt fails to parse.
C26_TotalShapePreserving ==
    Repaired =>
        /\ FactsShaped(last.ret)
        /\ Strip(last.response_text) = "" => last.ret = EmptyFacts
        /\ EveryAttemptFails(last.response_text) => last.ret = EmptyFacts

-----------------------------------------------------------------------------
(* Ids that are no UUID, checked under Spec *)

ByIdTools == {"get_memory", "update_memory", "get_memory_history"}

\* the memory_id argument of the invocation in `last`
IdArg == IF last.tool = "update_memory" THEN last.arg.memory_id ELSE last.arg

\* a by-id tool has been called with an id that is no UUID text
BadIdCall == last.tool \in ByIdTools /\ IdArg \notin DOMAIN UuidText

\* C27: get_memory, update_memory and get_memory_history called with an id
\* that is not a valid UUID write no access event, whatever the backend
\* returns for the id, and return a string.
C27_BadIdWritesNoEvent ==
    BadIdCall =>
        /\ last.logged = <<>>
        /\ last.ret.k = "return"
        /\ last.ret.v.t = "str"

\* the backend returned a record for an id that is no UUID, and the tool
\* returned it
C27_Witness ==
    /\ BadIdCall
    /\ last.tool = "get_memory"
    /\ last.resp.k = "return"
    /\ last.resp.v # PyNone
    /\ last.fault = "none"
    /\ last.ret = Returned(PyJson(last.resp.v))

-----------------------------------------------------------------------------
(* Posted messages: handle_post_message, mcp_server_optimized.py:488-513   *)
(* The handler passes the request to the transport and turns what the     *)
(* transport raises into a response; it runs beside the session handlers. *)

NotInitialized == "Received request before initialization was complete"

\* what awaiting request.body() and sse.handle_post_message can do
PostOutcomes ==
    {Returned(PyNone),
     Raised("RuntimeError", NotInitialized),
     Raised("RuntimeError", "session s1: " \o NotInitialized),
     Raised("RuntimeError", "Event loop is closed"),
     Raised("ValueError", "Could not parse message"),
     Raised("ClientDisconnect", ""),
     Raised("Exception", NotInitialized)}

PostResponse(status, message) == [status |-> status, message |-> message]

\* 505-513 with the initialization message treated like any runtime error
post_response_fatal(o) ==
    IF o.k # "raise" THEN [status |-> "ok"] ELSE PostResponse("error", o.msg)

\* 490-513: the response for an outcome of the transport
post_response(o) ==
    IF o.k # "raise" THEN [status |-> "ok"]
    ELSE IF o.type = "RuntimeError"
    THEN IF Contains(o.msg, NotInitialized)
         THEN PostResponse("warning", "Server initializing, please retry")
         ELSE PostResponse("error", o.msg)
    ELSE PostResponse("error", o.msg)

HandlePostMessage ==
    /\ \E o \in PostOutcomes :
           last' = [tool |-> "handle_post_message", outcome |-> o,
                    ret |-> Returned(post_response(o))]
    /\ UNCHANGED <<users, apps, memories>>
    /\ UNCHANGED <<clientVars, sessionVars, configVars, dbVars, deployVars>>

PostingNext == OpenSession \/ ConnectSse \/ RunServer \/ CloseSse \/ HandlePostMessage

SpecPosting == Init /\ [][PostingNext]_vars

\* the handler has answered a request in this step
Posted == last'.tool = "handle_post_message" /\ last' # last

\* the transport raised the not-yet-initialized error
InitializingFault(o) ==
    o.k = "raise" /\ o.type = "RuntimeError" /\ Contains(o.msg, NotInitialized)

C28_Step ==
    Posted =>
        /\ last'.ret.k = "return"
        /\ InitializingFault(last'.outcome) =>
               /\ last'.ret.v.status = "warning"
               /\ Contains(last'.ret.v.message, "retry")
               /\ active_connections' = active_connections
               /\ sessions' = sessions
        /\ (last'.outcome.k = "raise" /\ ~InitializingFault(last'.outcome)) =>
               last'.ret.v.status = "error"

\* C28: on the posted-message path the request-before-initialization fault
\* yields a warning response asking the client to retry, never an error
\* response, and removes or closes no registered session; every other
\* failure on that path yields an error response, not an unhandled fault.
C28_InitializingIsWarning == [][C28_Step]_vars

\* the fault was answered with a warning while a session was registered and
\* its server running
C28_Witness ==
    /\ last.tool = "handle_post_message"
    /\ InitializingFault(last.outcome)
    /\ last.ret.v.status = "warning"
    /\ \E i \in DOMAIN sessions :
           sessions[i].pc = "running" /\ sessions[i].connection_id \in active_connections

-----------------------------------------------------------------------------
(* Concurrent get_user_and_app, db.py:10-66, statement by statement        *)
(* Each caller has its own Session; a query reads the committed rows, and *)
(* db.commit() of an added row is one step of the database. The unique    *)
(* keys of the two tables are declared in app.models: User by user_id,    *)
(* App by (owner_id, name).                                               *)

ResolveUserIds == {"u1", "u2"}

ResolveAppIds == {"a1", "a2"}

\* the first of a set of rows of a table, None when there is none
FirstOf(rows, found) ==
    IF found = {} THEN NoRow
    ELSE rows[CHOOSE i \in found : \A j \in found : i <= j]

UserRowsOf(user_id) == {i \in DOMAIN user_rows : user_rows[i].user_id = user_id}

AppRowsOf(owner_id, name) ==
    {i \in DOMAIN app_rows : app_rows[i].owner_id = owner_id /\ app_rows[i].name = name}

\* db.query(User).filter(User.user_id == user_id).first()
FirstUser(user_id) == FirstOf(user_rows, UserRowsOf(user_id))

\* db.query(App).filter(App.owner_id == user.id, App.name == app_id).first()
FirstApp(owner_id, name) == FirstOf(app_rows, AppRowsOf(owner_id, name))

\* the unique key of the User table (user_id) already has the value: commit
\* raises IntegrityError
UserKeyTaken(user_id) == UserRowsOf(user_id) # {}

\* the unique key of the App table (owner_id, name) already has the value
AppKeyTaken(owner_id, name) == AppRowsOf(owner_id, name) # {}

\* except IntegrityError: raise
on_conflict_raise(found, what) == Raised("IntegrityError", "UNIQUE constraint failed")

\* db.py:25-33 and 51-59 after the second query: the row, or the exception
on_conflict(found, what) ==
    IF found # NoRow THEN Returned(found)
    ELSE Raised("Exception", "Failed to get or create " \o what)

At(p, where) == resolvers[p].pc = where

Goto(p, where) == resolvers' = [resolvers EXCEPT ![p].pc = where]

\* get_user_and_app(db, user_id, app_id) is entered
CallGetUserAndApp(p) ==
    /\ At(p, "idle")
    /\ \E user_id \in ResolveUserIds, app_id \in ResolveAppIds :
           resolvers' = [resolvers EXCEPT ![p] =
               [pc |-> "query_user", user_id |-> user_id, app_id |-> app_id,
                user |-> NoRow, app |-> NoRow, out |-> NoOutcome, raced |-> {}]]
    /\ UNCHANGED <<user_rows, app_rows>>

\* db.py:13-15
QueryUser(p) ==
    /\ At(p, "query_user")
    /\ LET user == FirstUser(resolvers[p].user_id)
       IN  resolvers' = [resolvers EXCEPT ![p].user = user,
                             ![p].pc = IF user # NoRow THEN "query_app" ELSE "commit_user"]
    /\ UNCHANGED <<user_rows, app_rows>>

\* db.py:19-27: add, commit, refresh; the commit raises IntegrityError when
\* the table already has a row with the user id, and the session rolls back
CommitUser(p) ==
    /\ At(p, "commit_user")
    /\ IF UserKeyTaken(resolvers[p].user_id)
       THEN /\ resolvers' = [resolvers EXCEPT ![p].pc = "refetch_user",
                                 ![p].raced = @ \cup {"user"}]
            /\ UNCHANGED user_rows
       ELSE LET user == [id |-> Len(user_rows) + 1, user_id |-> resolvers[p].user_id]
            IN  /\ user_rows' = Append(user_rows, user)
                /\ resolvers' = [resolvers EXCEPT ![p].user = user, ![p].pc = "query_app"]
    /\ UNCHANGED app_rows

\* db.py:29-33
RefetchUser(p) ==
    /\ At(p, "refetch_user")
    /\ LET r == on_conflict(FirstUser(resolvers[p].user_id), "user")
       IN  resolvers' = IF r.k = "raise"
                        THEN [resolvers EXCEPT ![p].out = r, ![p].pc = "done"]
                        ELSE [resolvers EXCEPT ![p].user = r.v, ![p].pc = "query_app"]
    /\ UNCHANGED <<user_rows, app_rows>>

\* db.py:39-41
QueryApp(p) ==
    /\ At(p, "query_app")
    /\ LET app == FirstApp(resolvers[p].user.id, resolvers[p].app_id)
       IN  resolvers' = IF app # NoRow
                        THEN [resolvers EXCEPT ![p].app = app, ![p].pc = "done",
                                  ![p].out = Returned(<<resolvers[p].user, app>>)]
                        ELSE [resolvers EXCEPT ![p].pc = "commit_app"]
    /\ UNCHANGED <<user_rows, app_rows>>

\* db.py:45-53: IntegrityError when the table already has a row with the
\* owner and the name
CommitApp(p) ==
    /\ At(p, "commit_app")
    /\ IF AppKeyTaken(resolvers[p].user.id, resolvers[p].app_id)
       THEN /\ resolvers' = [resolvers EXCEPT ![p].pc = "refetch_app",
                                 ![p].raced = @ \cup {"app"}]
            /\ UNCHANGED app_rows
       ELSE LET app == [id |-> Len(app_rows) + 1, owner_id |-> resolvers[p].user.id,
                        name |-> resolvers[p].app_id]
            IN  /\ app_rows' = Append(app_rows, app)
                /\ resolvers' = [resolvers EXCEPT ![p].app = app, ![p].pc = "done",
                                     ![p].out = Returned(<<resolvers[p].user, app>>)]
    /\ UNCHANGED user_rows

\* db.py:55-59
RefetchApp(p) ==
    /\ At(p, "refetch_app")
    /\ LET r == on_conflict(FirstApp(resolvers[p].user.id, resolvers[p].app_id), "app")
       IN  resolvers' = IF r.k = "raise"
                        THEN [resolvers EXCEPT ![p].out = r, ![p].pc = "done"]
                        ELSE [resolvers EXCEPT ![p].app = r.v, ![p].pc = "done",
                                  ![p].out = Returned(<<resolvers[p].user, r.v>>)]
    /\ UNCHANGED <<user_rows, app_rows>>

Others == UNCHANGED <<clientVars, gatewayVars, sessionVars, configVars, tool_run, deployVars>>

ResolveNext ==
    \/ \E p \in Resolvers : CallGetUserAndApp(p) /\ Others
    \/ \E p \in Resolvers : QueryUser(p) /\ Others
    \/ \E p \in Resolvers : CommitUser(p) /\ Others
    \/ \E p \in Resolvers : RefetchUser(p) /\ Others
    \/ \E p \in Resolvers : QueryApp(p) /\ Others
    \/ \E p \in Resolvers : CommitApp(p) /\ Others
    \/ \E p \in Resolvers : RefetchApp(p) /\ Others

SpecResolve == Init /\ [][ResolveNext]_vars

\* the call of p has returned the one user row and the one application row
\* of its arguments
ReturnedTheRows(p) ==
    LET r == resolvers[p]
    IN  /\ r.out.k = "return"
        /\ \E i \in UserRowsOf(r.user_id) :
               /\ UserRowsOf(r.user_id) = {i}
               /\ r.out.v[1] = user_rows[i]
               /\ \E j \in AppRowsOf(user_rows[i].id, r.app_id) :
                      /\ AppRowsOf(user_rows[i].id, r.app_id) = {j}
                      /\ r.out.v[2] = app_rows[j]

\* C29: in every interleaving of concurrent get_user_and_app calls there is
\* at most one user row per user id and one application row per (user,
\* application) pair, and every call that has ended has returned the one
\* user row and the one application row of its arguments.
C29_OneRowEach ==
    /\ \A u \in ResolveUserIds : Cardinality(UserRowsOf(u)) <= 1
    /\ \A i \in DOMAIN user_rows, a \in ResolveAppIds :
           Cardinality(AppRowsOf(user_rows[i].id, a)) <= 1
    /\ \A p \in Resolvers : At(p, "done") => ReturnedTheRows(p)

\* two calls with the same arguments have ended, one of them after losing
\* both the race for the user row and the race for the application row
C29_Witness ==
    \E p, q \in Resolvers :
        /\ p # q
        /\ At(p, "done") /\ At(q, "done")
        /\ resolvers[p].user_id = resolvers[q].user_id
        /\ resolvers[p].app_id = resolvers[q].app_id
        /\ resolvers[q].raced = {"user", "app"}
        /\ resolvers[p].out = resolvers[q].out

-----------------------------------------------------------------------------
(* The db session of a tool call, statement by statement                   *)
(* Every tool but get_entities has the shape of search_memory, lines      *)
(* 244-294: db = SessionLocal(); try: get_user_and_app, arguments, the    *)
(* backend call, the store work; finally: db.close(); except Exception.   *)

\* the tools that open a db session
StoreTools ==
    {"add_memories", "search_memory", "list_memories", "delete_all_memories",
     "get_memory", "update_memory", "delete_memory", "get_memory_history",
     "batch_update_memories", "batch_delete_memories"}

\* the tools that test something between get_user_and_app and the backend
\* call and return from inside the try block (148-155, 250-253)
LateChecks == {"add_memories", "search_memory"}

Step(where, fields) == tool_run' = [pc |-> where] @@ fields @@ tool_run

RunAt(where) == tool_run.pc = where

Rest == UNCHANGED <<clientVars, gatewayVars, sessionVars, configVars,
                    user_rows, app_rows, resolvers, deployVars>>

\* the tool is invoked
EnterTool ==
    /\ RunAt("idle")
    /\ \E tool \in StoreTools :
           tool_run' = [NotRunning EXCEPT !.pc = "entered", !.tool = tool]
    /\ Rest

\* 135-140, and the argument checks ahead of SessionLocal() (581-584,
\* 782-787, 845-850): return before any session exists
RejectCall ==
    /\ RunAt("entered")
    /\ Step("returned", [out |-> "rejected"])
    /\ Rest

\* db = SessionLocal()
OpenDb ==
    /\ RunAt("entered")
    /\ Step("resolving", [db |-> "open"])
    /\ Rest

\* get_user_and_app(db, ...): returns, or raises into the finally clause
ResolveCaller ==
    /\ RunAt("resolving")
    /\ \/ Step("ready", [out |-> "none"])
       \/ Step("finally", [out |-> "error: resolve"])
    /\ Rest

\* a return statement between get_user_and_app and the backend call
ReturnEarly ==
    /\ RunAt("ready")
    /\ tool_run.tool \in LateChecks
    /\ Step("finally", [out |-> "error: arguments"])
    /\ Rest

\* memory_client.<method>(...) is entered
CallBackend ==
    /\ RunAt("ready")
    /\ Step("backend", [out |-> "none"])
    /\ Rest

\* the backend call returns, or raises and the inner handler returns the
\* error text
BackendReturns ==
    /\ RunAt("backend")
    /\ \/ Step("store", [out |-> "none"])
       \/ Step("finally", [out |-> "error: backend"])
    /\ Rest

\* the queries, writes and commits that follow the backend call
StoreWork ==
    /\ RunAt("store")
    /\ \/ Step("finally", [out |-> "payload"])
       \/ Step("finally", [out |-> "error: store"])
    /\ Rest

\* finally: db.close(); then the return, or except Exception and its return
CloseDb ==
    /\ RunAt("finally")
    /\ Step("returned", [db |-> "closed"])
    /\ Rest

\* the string is handed to the caller
ToolReturns ==
    /\ RunAt("returned")
    /\ tool_run' = NotRunning
    /\ Rest

StoreUseNext ==
    \/ EnterTool \/ RejectCall \/ OpenDb \/ ResolveCaller \/ ReturnEarly \/ CallBackend
    \/ BackendReturns \/ StoreWork \/ CloseDb \/ ToolReturns

SpecStoreUse == Init /\ [][StoreUseNext]_vars

\* the session is released once the call has ended, on every exit path
ReleasedAtExit == RunAt("returned") => tool_run.db \in {"none", "closed"}

\* C30: in every tool call no db session is open while the backend call is
\* in progress, and the session is released on every exit path of the call.
C30_NotHeldAcrossBackend ==
    /\ RunAt("backend") => tool_run.db # "open"
    /\ ReleasedAtExit

-----------------------------------------------------------------------------
(* The chain of backend calls of one add, checked under SpecClient *)

MaxAddCalls == 1 + NumStrategies + 1

\* the call carries the emergency marker of memory.py:266
IsEmergency(c) ==
    /\ "metadata" \in DOMAIN c.kwargs
    /\ IsDict(c.kwargs["metadata"])
    /\ "emergency_storage" \in DOMAIN c.kwargs["metadata"].d

EmergencyCalls == {i \in DOMAIN calls : IsEmergency(calls[i])}

\* C31: one add issues at most six backend calls and has ended once the
\* sixth was made; the emergency call is made at most once, as the sixth
\* call, after the direct call and all four fallbacks gave no accepted
\* result, with inference disabled and at most the first 100 characters of
\* the text in its metadata.
C31_BoundedChain ==
    op = "add" =>
        /\ Len(calls) <= MaxAddCalls
        /\ Len(calls) = MaxAddCalls => pc = "done"
        /\ pc = "done" => ret # NoOutcome
        /\ Cardinality(EmergencyCalls) <= 1
        /\ \A i \in EmergencyCalls :
               /\ i = MaxAddCalls
               /\ \A j \in 1..(i - 1) : calls[j].res # "dict" /\ ~IsEmergency(calls[j])
               /\ calls[i].kwargs["infer"] = PyBool(FALSE)
               /\ calls[i].kwargs["metadata"].d["original_text"] =
                      PyStr(Prefix(text, EmergencyLen))
               /\ Len(calls[i].kwargs["metadata"].d["original_text"].s) <= EmergencyLen
               /\ calls[i].text = text

\* an add of a text longer than 100 characters has gone through the whole
\* chain
C31_Witness ==
    /\ op = "add"
    /\ pc = "done"
    /\ Len(calls) = MaxAddCalls
    /\ EmergencyCalls = {MaxAddCalls}
    /\ Len(text) > EmergencyLen

\* the backend calls of the current add that came back without raising
ReturnedCalls == {i \in DOMAIN calls : calls[i].res # "raised"}

\* C34: within one add, a backend call that returned without raising is the
\* last backend call of that add.
C34_NoCallAfterReturn ==
    op = "add" => \A i \in ReturnedCalls : i = Len(calls)

-----------------------------------------------------------------------------
(* The configuration as get_memory_client sees it: the row of the          *)
(* database, the dictionary cached by ConfigManager, the dictionary handed *)
(* to Memory.from_config, and os.environ.  get_config returns the cached   *)
(* dictionary itself, so what a caller writes into it is in the cache.     *)

\* OPENAI_API_BASE / OPENAI_BASE_URL (memory.py:486)
ConflictingVars == {"OPENAI_API_BASE"}

\* the configurations the endpoints are given: whether llm.config has an
\* openai_base_url, whether an embedder section is present, and the
\* openmemory.custom_instructions; mem0.custom_fact_extraction_prompt is ""
\* when the key is absent
GivenConfigs ==
    {[t |-> "config", base_url |-> b, embedder |-> e, instructions |-> i, prompt |-> ""] :
        b \in BOOLEAN, e \in {"absent", "openai"}, i \in {"", "stored rules"}}

\* config_manager.py:29-83
BuiltInDefault ==
    [t |-> "config", base_url |-> FALSE, embedder |-> "openai", instructions |-> "",
     prompt |-> ""]

\* what default_config.json holds: no file, or a file without embedder section
DefaultFiles == {Absent, [BuiltInDefault EXCEPT !.embedder = "absent"]}

\* config_manager.py:99-117
get_default_config(file) == IF file # Absent THEN file ELSE BuiltInDefault

\* config_manager.py:119-139: deep_merge(default_config, config)
ensure_config_completeness(config) ==
    [config EXCEPT !.embedder = IF @ = "absent" THEN BuiltInDefault.embedder ELSE @]

\* config_manager.py:141-157: the configuration read, and the row afterwards
get_config_from_db(row, file) ==
    IF row # Absent
    THEN [config |-> ensure_config_completeness(row), row |-> row]
    ELSE [config |-> get_default_config(file),
          row |-> ensure_config_completeness(get_default_config(file))]

\* config_manager.py:184-204 with use_cache=False: nothing is cached
UncachedRead(row, file) == get_config_from_db(row, file).config

\* config_manager.py:184-204 with use_cache=True: the dictionary returned,
\* the cache and the row afterwards
get_config(cache, row, file) ==
    IF cache # Absent THEN [config |-> cache, cache |-> cache, row |-> row]
    ELSE LET r == get_config_from_db(row, file)
         IN  [config |-> r.config, cache |-> r.config, row |-> r.row]

\* the arguments get_memory_client is called with
InstructionArgs == {"", "call rules"}

\* memory.py:553-556 with the prompt written into a copy of the dictionary
set_prompt_in_copy(config, instructions_to_use) == config

\* memory.py:553-556: config["custom_fact_extraction_prompt"] = ... on the
\* dictionary get_mem0_config returned
set_prompt(config, instructions_to_use) ==
    IF instructions_to_use # "" THEN [config EXCEPT !.prompt = instructions_to_use]
    ELSE config

\* memory.py:459-515: with a custom base url and a conflicting variable set,
\* the variable is deleted and recorded in the configuration
ensure_config_priority(mem0, env) ==
    IF mem0.base_url /\ env \cap ConflictingVars # {}
    THEN [config |-> [mem0 EXCEPT !.original_env_vars = env \cap ConflictingVars],
          environ |-> env \ ConflictingVars]
    ELSE [config |-> mem0, environ |-> env]

\* the mem0 section handed on: memory.py:537-590
Mem0Section(config, prompt) ==
    [base_url |-> config.base_url, embedder |-> config.embedder, prompt |-> prompt,
     original_env_vars |-> {}]

\* memory.py:323-326
config_hash(config) == [t |-> "md5", of |-> config]

\* memory.py:518-689: the state after the call and what it returned
get_memory_client(custom_instructions, construction, file) ==
    LET g == get_config(_config_cache, stored_config, file)
        instructions_to_use ==
            IF custom_instructions # "" THEN custom_instructions ELSE g.config.instructions
        cached == set_prompt(g.config, instructions_to_use)
        used == IF instructions_to_use # "" THEN instructions_to_use ELSE cached.prompt
        p == ensure_config_priority(Mem0Section(cached, used), environ)
        current_config_hash == config_hash(p.config)
        rebuild == _memory_client = Absent \/ _config_hash # current_config_hash
        made == rebuild /\ construction = "ok"
    IN  [row |-> g.row, loaded |-> g.config, cache |-> cached, environ |-> p.environ,
         config |-> p.config, rebuild |-> rebuild, made |-> made,
         client |-> IF ~rebuild THEN _memory_client
                    ELSE IF made THEN Client(built + 1, p.config) ELSE Absent,
         hash |-> IF ~rebuild THEN _config_hash
                  ELSE IF made THEN current_config_hash ELSE Absent]

\* the environment and the database before the server starts
SettingsInit ==
    /\ stored_config \in {Absent} \cup {ensure_config_completeness(c) : c \in GivenConfigs}
    /\ _config_cache = Absent
    /\ _memory_client = Absent
    /\ _config_hash = Absent
    /\ built = 0
    /\ retired = {}
    /\ environ \in SUBSET ConflictingVars

InitSettings == ClientInit /\ GatewayInit /\ SessionInit /\ SettingsInit /\ TableInit /\ DiskInit

OutsideSettings ==
    /\ UNCHANGED <<users, apps, memories>>
    /\ UNCHANGED <<clientVars, sessionVars, dbVars, deployVars>>

\* config.py:142-199: save_config_to_db, then reset_memory_client
UpdateSettings ==
    /\ \E config \in GivenConfigs :
         /\ stored_config' = ensure_config_completeness(config)
         /\ last' = [tool |-> "update_configuration"]
    /\ SetModule(reset_memory_client(Module))
    /\ UNCHANGED <<built, retired, environ>>
    /\ OutsideSettings

\* config_manager.py:251-257 and 159-182: saved, cache cleared, no reset
SaveSettings ==
    /\ \E config \in GivenConfigs :
         /\ stored_config' = ensure_config_completeness(config)
         /\ last' = [tool |-> "save_config"]
    /\ _config_cache' = Absent
    /\ UNCHANGED <<_memory_client, _config_hash, built, retired, environ>>
    /\ OutsideSettings

\* config_manager.py:239-241: get_config() by any reader
ReadSettings ==
    /\ \E file \in DefaultFiles :
         LET g == get_config(_config_cache, stored_config, file)
         IN  /\ stored_config' = g.row
             /\ _config_cache' = g.cache
             /\ last' = [tool |-> "get_config", ret |-> g.config]
    /\ UNCHANGED <<_memory_client, _config_hash, built, retired, environ>>
    /\ OutsideSettings

\* memory.py:518-689
GetClient ==
    /\ \E custom_instructions \in InstructionArgs, construction \in {"ok", "raises"},
          file \in DefaultFiles :
         LET r == get_memory_client(custom_instructions, construction, file)
         IN  /\ r.made => built < MaxBuilds
             /\ ~r.rebuild => construction = "ok"
             /\ stored_config' = r.row
             /\ _config_cache' = r.cache
             /\ _memory_client' = r.client
             /\ _config_hash' = r.hash
             /\ environ' = r.environ
             /\ built' = IF r.made THEN built + 1 ELSE built
             /\ last' = [tool |-> "get_memory_client",
                         custom_instructions |-> custom_instructions,
                         ret |-> r.client, config |-> r.config, loaded |-> r.loaded,
                         made |-> r.made, n |-> built']
    /\ UNCHANGED retired
    /\ OutsideSettings

SettingsNext == UpdateSettings \/ SaveSettings \/ ReadSettings \/ GetClient

SpecSettings == InitSettings /\ [][SettingsNext]_vars

\* C32: whenever something is cached, a read with the cache enabled returns
\* what an uncached read of the database returns.
C32_CacheAgreesWithDatabase ==
    _config_cache # Absent =>
        get_config(_config_cache, stored_config, Absent).config
            = UncachedRead(stored_config, Absent)

\* a get_memory_client call has just returned
Got == last.tool = "get_memory_client"

\* a call without the argument used the stored configuration alone
StoredAlone ==
    (Got /\ last.custom_instructions = "") => last.config.prompt = stored_config.instructions

\* the call left the cached dictionary as it found or loaded it
CacheUntouched == Got => _config_cache = last.loaded

\* C39: a custom_instructions argument affects only the call it is passed
\* to: a call without the argument builds its configuration from the stored
\* configuration alone, and get_memory_client leaves the cached
\* configuration unchanged.
C39_InstructionsStayLocal == StoredAlone /\ CacheUntouched

\* two get_memory_client calls with the same argument follow one another,
\* the first having returned a client, with no reset, no save and no change
\* of the environment from outside in between
C38_Step ==
    (/\ Got
     /\ last.ret # Absent
     /\ last'.tool = "get_memory_client"
     /\ last'.custom_instructions = last.custom_instructions
     /\ stored_config' = stored_config)
        => last'.ret = last.ret /\ built' = built

\* C38: when get_memory_client has returned a client and nothing was reset
\* or changed from outside since, the next call returns the same instance
\* and constructs no client.
C38_RebuiltOnlyWhenNeeded == [][C38_Step]_vars

-----------------------------------------------------------------------------
(* The tools that change records: whom they let through, what an error     *)
(* leaves behind, and what the status history says.                        *)

IdMutators ==
    {"update_memory", "delete_memory", "batch_update_memories", "batch_delete_memories"}

\* the stored records the engine call of the invocation names
TargetIds(inv) ==
    IF inv.call = NoCall THEN {}
    ELSE IF inv.tool = "update_memory"
    THEN UuidsOf(<<PyStr(inv.arg.memory_id)>>)
    ELSE IF inv.tool = "delete_memory"
    THEN UuidsOf(<<PyStr(inv.arg)>>)
    ELSE IF inv.tool = "batch_delete_memories"
    THEN UuidsOf(inv.arg.v.items)
    ELSE IF inv.tool = "batch_update_memories"
    THEN UuidsOf(ItemIds(inv.arg.v.items, "memory_id"))
    ELSE {}

\* the engine carried the call out on the records it names; update_memory
\* takes None from the engine as "not found or could not be updated"
\* (mcp_server_optimized.py:599-600)
EngineChanged(inv) ==
    /\ EnginePerformed(inv)
    /\ inv.tool = "update_memory" => inv.resp.v # PyNone

\* the shadow records whose row differs after the step
ShadowChanged == {u \in DOMAIN memories : memories'[u] # memories[u]}

C35_Step ==
    last'.tool \in IdMutators =>
        /\ ShadowChanged \subseteq last'.acc
        /\ EngineChanged(last') =>
               (TargetIds(last') \cap DOMAIN memories) \subseteq last'.acc

\* C35: update_memory, delete_memory, batch_update_memories and
\* batch_delete_memories change a record, in the engine or in the shadow
\* store, only if the access check accepts it for the calling application.
C35_MutationsNeedAccess == [][Idle => C35_Step]_vars

ErrorCheckedTools == {"add_memories", "delete_memory", "batch_delete_memories"}

C36_Step ==
    (last'.tool \in ErrorCheckedTools /\ IsErrorText(last'.ret)) =>
        /\ memories' = memories
        /\ ~EnginePerformed(last')

\* C36: when add_memories, delete_memory or batch_delete_memories returns an
\* error string, the call has changed no shadow record and the engine has
\* not carried out its operation.
C36_ErrorChangesNothing == [][Idle => C36_Step]_vars

HistoryWriters ==
    {"add_memories", "delete_memory", "delete_all_memories", "batch_delete_memories"}

\* the history row h, committed by the step, tells the state the record had
\* before the call (when it had a row) and the state it has after it
Faithful(h) ==
    /\ h.memory_id \in DOMAIN memories => h.old_state = memories[h.memory_id].state
    /\ h.memory_id \in DOMAIN memories'
    /\ h.new_state = memories'[h.memory_id].state

C37_Step ==
    last'.tool \in HistoryWriters =>
        \A i \in DOMAIN last'.hist : Faithful(last'.hist[i])

\* C37: every status-history row committed by add_memories, delete_memory,
\* delete_all_memories or batch_delete_memories has as old_state the state
\* the shadow record had before the call and as new_state the state it has
\* after the call.
C37_HistoryFaithful == [][Idle => C37_Step]_vars

-----------------------------------------------------------------------------
(* deploy_optimized.py: switching main.py between the original server and  *)
(* the optimized one.  A file's content is a sequence of pieces, a piece   *)
(* being one of the two import statements or other text; str.replace acts  *)
(* on each piece.                                                          *)

MaxPiecesOfMain == 2
MaxRuns == 3

MainPieces == {ImportOriginal, ImportOptimized, "app = FastAPI()"}

MainContents ==
    UNION {[1..n -> MainPieces] : n \in 0..MaxPiecesOfMain}

\* deploy_optimized.py:60-63: content.replace(old, new)
replace(content, old, new) ==
    [i \in DOMAIN content |-> IF content[i] = old THEN new ELSE content[i]]

\* deploy_optimized.py:17-24: backup_file, the copy it leaves (the backup as
\* it was when the file is missing)
backup_file(file, backup) == IF file.exists THEN file ELSE backup

\* backup_file with a backup that is already there left as it is
backup_file_once(file, backup) ==
    IF file.exists /\ ~backup.exists THEN file ELSE backup

\* deploy_optimized.py:26-33: restore_file, the file it leaves
restore_file(file, backup) == IF backup.exists THEN backup ELSE file

ScriptRun(name, ok) == [run |-> name, ok |-> ok]

DeployDirs ==
    /\ main_py \in {Missing} \cup {File(c) : c \in MainContents}
    /\ main_py_backup = Missing
    /\ mcp_mode = Missing
    /\ app_files \in SUBSET AppFiles
    /\ runs = <<>>
    /\ main_py_before = main_py

InitDeploy == ClientInit /\ GatewayInit /\ SessionInit /\ ConfigInit /\ TableInit /\ DeployDirs

OutsideDeploy ==
    UNCHANGED <<clientVars, gatewayVars, sessionVars, configVars, dbVars>>

\* deploy_optimized.py:35-82
switch_to_optimized ==
    /\ Len(runs) < MaxRuns
    /\ IF "app/mcp_server.py" \notin app_files
       THEN /\ runs' = Append(runs, ScriptRun("switch_to_optimized", FALSE))
            /\ UNCHANGED <<main_py, main_py_backup, mcp_mode>>
       ELSE IF ~main_py.exists
       THEN /\ runs' = Append(runs, ScriptRun("switch_to_optimized", FALSE))
            /\ UNCHANGED <<main_py, main_py_backup, mcp_mode>>
       ELSE /\ main_py_backup' = backup_file(main_py, main_py_backup)
            /\ IF "app/mcp_server_optimized.py" \notin app_files
               THEN /\ runs' = Append(runs, ScriptRun("switch_to_optimized", FALSE))
                    /\ UNCHANGED <<main_py, mcp_mode>>
               ELSE /\ main_py' = File(replace(main_py.content,
                                               ImportOriginal, ImportOptimized))
                    /\ mcp_mode' = File(<<"optimized">>)
                    /\ runs' = Append(runs, ScriptRun("switch_to_optimized", TRUE))
    /\ UNCHANGED <<app_files, main_py_before>>
    /\ OutsideDeploy

\* deploy_optimized.py:84-102
switch_to_original ==
    /\ Len(runs) < MaxRuns
    /\ main_py' = restore_file(main_py, main_py_backup)
    /\ IF main_py_backup.exists
       THEN /\ mcp_mode' = File(<<"original">>)
            /\ runs' = Append(runs, ScriptRun("switch_to_original", TRUE))
       ELSE /\ mcp_mode' = mcp_mode
            /\ runs' = Append(runs, ScriptRun("switch_to_original", FALSE))
    /\ UNCHANGED <<main_py_backup, app_files, main_py_before>>
    /\ OutsideDeploy

DeployNext == switch_to_optimized \/ switch_to_original

SpecDeploy == InitDeploy /\ [][DeployNext]_vars

\* one or more successful switches to the optimized server, then a switch
\* back, and nothing else
SwitchedThereAndBack ==
    /\ Len(runs) >= 2
    /\ runs[Len(runs)] = ScriptRun("switch_to_original", TRUE)
    /\ \A i \in 1..(Len(runs) - 1) : runs[i] = ScriptRun("switch_to_optimized", TRUE)

\* C33: after one or more switches to the optimized server followed by a
\* switch back, main.py has the content it had before the first switch and
\* the recorded mode is 'original'.
C33_SwitchBackRestores ==
    SwitchedThereAndBack =>
        /\ main_py = main_py_before
        /\ mcp_mode = File(<<"original">>)

====
